---- MODULE Spec2Model ----
(***************************************************************************)
(* The test-run lifecycle of the TestLlama server (server/index.ts and     *)
(* server/db.ts): the relational tables as sets of rows, the uploads       *)
(* directory as a set of files, and one action per REST handler.  The      *)
(* handlers are built from one operator per SQL statement, so that the     *)
(* same statements serve the handler run to completion and the handler     *)
(* interleaved with another request statement by statement.                *)
(***************************************************************************)
EXTENDS Integers, Sequences, FiniteSets, TLC

VARIABLES
  test_cases,       \* table test_cases: set of rows
  test_case_steps,  \* table test_case_steps: set of rows
  test_runs,        \* table test_runs: set of rows
  test_run_steps,   \* table test_run_steps: set of rows
  uploads,          \* files of UPLOADS_DIR: set of [id, ext]
  serial,           \* the SERIAL sequences and the supply of random UUIDs
  now,              \* the clock NOW() reads
  last,             \* the request handled last and its response
  inflight,         \* requests being handled statement by statement
  projects,         \* table projects: set of rows
  test_case_folders,\* table test_case_folders: set of rows
  test_run_folders, \* table test_run_folders: set of rows
  form,             \* TestCaseForm: the state of the edit form of a test case
  jira_links,       \* table jira_links: set of rows
  test_run_jira_links, \* table test_run_jira_links: set of rows
  runForm           \* TestRunForm: the state of the edit form of a run

\* The tables of the links to Jira issues.
links == <<jira_links, test_run_jira_links>>

\* Everything but the edit form of a run.
outsideRunForm == <<test_cases, test_case_steps, test_runs, test_run_steps, uploads,
                   serial, now, last, inflight, projects, test_case_folders,
                   test_run_folders, form, links>>

\* The project, folder and link tables and the edit forms.
library == <<projects, test_case_folders, test_run_folders, form, links, runForm>>

vars == <<test_cases, test_case_steps, test_runs, test_run_steps, uploads,
          serial, now, last, inflight, library>>

(***************************************************************************)
(* Bounds of the model.                                                    *)
(***************************************************************************)
MaxTime == 2

MaxRuns == 2

\* The longest step list and attachment list a fault is placed in.
MaxSteps == 2

MaxFiles == 2

(***************************************************************************)
(* Values.                                                                 *)
(***************************************************************************)
\* SQL NULL in a column that otherwise holds an id (ids start at 1).
NULL == 0

\* The two browser sessions whose requests the server handles concurrently.
Clients == {"A", "B"}

\* No request of the client is being handled.
Idle == [pc |-> "idle"]

validStatuses == {"ready_to_test", "in_progress", "passed", "failed", "na"}

LOCKED_STATUSES == {"passed", "failed"}

\* A TEXT column holding JSON: the empty text '' (the column default and the
\* value POST /test-runs inserts) or the text JSON.stringify produced.
EmptyText == [txt |-> "empty", arr |-> <<>>]

JSONstringify(arr) == [txt |-> "json", arr |-> arr]

\* JSON.parse(raw || '[]'): the empty text reads as the empty array.
parseAttachments(raw) == IF raw.txt = "empty" THEN <<>> ELSE raw.arr

\* An optional JavaScript value is {} when undefined or null, {v} otherwise.
\* x ?? null, then COALESCE($n, column)
COALESCE(param, column) == IF param = {} THEN column ELSE CHOOSE v \in param : TRUE

\* step.actualResultAttachments != null ? JSON.stringify(...) : null
AttachmentsParam_falsy(x) ==
  IF x = {} \/ x = {<<>>} THEN {} ELSE {JSONstringify(CHOOSE v \in x : TRUE)}

AttachmentsParam(x) ==
  IF x = {} THEN {} ELSE {JSONstringify(CHOOSE v \in x : TRUE)}

\* A JavaScript number that may be NaN.
Number(n) == [isNaN |-> FALSE, n |-> n]

NaN == [isNaN |-> TRUE, n |-> 0]

Digits == <<"0", "1", "2", "3", "4", "5", "6", "7", "8", "9">>

IsDigit(c) == \E d \in 1..Len(Digits) : Digits[d] = c

DigitValue(c) == (CHOOSE d \in 1..Len(Digits) : Digits[d] = c) - 1

\* The value of the leading digits of text, read after the value acc.
RECURSIVE parseDigits(_, _)
parseDigits(text, acc) ==
  IF text = <<>> \/ ~IsDigit(Head(text)) THEN acc
  ELSE parseDigits(Tail(text), acc * 10 + DigitValue(Head(text)))

\* parseInt(text, 10) of a text without sign or leading blanks: the number its
\* leading digits spell, NaN when it starts with none.
parseInt(text) ==
  IF text = <<>> \/ ~IsDigit(Head(text)) THEN NaN ELSE Number(parseDigits(text, 0))

(***************************************************************************)
(* SQL statements of PUT /service/test-runs/:id.                           *)
(***************************************************************************)
\* SELECT id, status FROM test_runs WHERE id = $1
SelectRun(runs, id) == {r \in runs : r.id = id}

\* UPDATE test_runs SET status = $1, updated_at = NOW() WHERE id = $2
UpdateRunStatus_sticky(runs, status, id, t) ==
  {IF r.id = id
     THEN IF r.status \in LOCKED_STATUSES
            THEN [r EXCEPT !.updated_at = t]
            ELSE [r EXCEPT !.status = status, !.updated_at = t]
     ELSE r : r \in runs}

UpdateRunStatus(runs, status, id, t) ==
  {IF r.id = id THEN [r EXCEPT !.status = status, !.updated_at = t] ELSE r : r \in runs}

\* UPDATE test_runs SET updated_at = NOW() WHERE id = $1
UpdateRunTouched_never(runs, id, t) == runs

UpdateRunTouched(runs, id, t) ==
  {IF r.id = id THEN [r EXCEPT !.updated_at = t] ELSE r : r \in runs}

\* UPDATE test_run_steps SET ... = COALESCE($n, ...) WHERE id = $5 AND test_run_id = $6
UpdateRunStep_anyRun(steps, step, id) ==
  {IF r.id = step.id
     THEN [r EXCEPT !.actual_results = COALESCE(step.actualResults, @),
                    !.actual_result_attachments =
                        COALESCE(AttachmentsParam(step.actualResultAttachments), @),
                    !.checked = COALESCE(step.checked, @),
                    !.step_status = COALESCE(step.stepStatus, @)]
     ELSE r : r \in steps}

UpdateRunStep_replace(steps, step, id) ==
  {IF r.id = step.id /\ r.test_run_id = id
     THEN [r EXCEPT !.actual_results = COALESCE(step.actualResults, @),
                    !.actual_result_attachments =
                        COALESCE(AttachmentsParam(step.actualResultAttachments), @),
                    !.checked = COALESCE(step.checked, @),
                    !.step_status = COALESCE(step.stepStatus, @),
                    !.attachments = EmptyText]
     ELSE r : r \in steps}

UpdateRunStep(steps, step, id) ==
  {IF r.id = step.id /\ r.test_run_id = id
     THEN [r EXCEPT !.actual_results = COALESCE(step.actualResults, @),
                    !.actual_result_attachments =
                        COALESCE(AttachmentsParam(step.actualResultAttachments), @),
                    !.checked = COALESCE(step.checked, @),
                    !.step_status = COALESCE(step.stepStatus, @)]
     ELSE r : r \in steps}

\* for (const step of steps) { if (typeof step.id !== 'number') continue; UPDATE ... }
RECURSIVE UpdateRunSteps(_, _, _)
UpdateRunSteps(steps, list, id) ==
  IF list = <<>> THEN steps
  ELSE LET step == Head(list)
           next == IF step.typeofId # "number" THEN steps
                   ELSE UpdateRunStep(steps, step, id)
       IN  UpdateRunSteps(next, Tail(list), id)

(***************************************************************************)
(* The decisions of PUT /service/test-runs/:id.                            *)
(***************************************************************************)
\* isLocked && steps != null && Array.isArray(steps) && steps.length > 0
RejectLocked_several(currentStatus, steps) ==
  /\ currentStatus \in LOCKED_STATUSES
  /\ steps.kind = "array"
  /\ Len(steps.arr) > 1

RejectLocked_always(currentStatus, steps) == currentStatus \in LOCKED_STATUSES

RejectLocked(currentStatus, steps) ==
  /\ currentStatus \in LOCKED_STATUSES
  /\ steps.kind = "array"
  /\ Len(steps.arr) > 0

\* status != null && (typeof status !== 'string' || !validStatuses.includes(status))
InvalidStatus_na(status) ==
  /\ status.typeof # "undefined"
  /\ (status.typeof # "string" \/ status.v \notin validStatuses \ {"na"})

InvalidStatus_typeOnly(status) ==
  /\ status.typeof # "undefined"
  /\ status.typeof # "string"

InvalidStatus(status) ==
  /\ status.typeof # "undefined"
  /\ (status.typeof # "string" \/ status.v \notin validStatuses)

\* if (!isLocked && Array.isArray(steps)): the patches the loop goes through.
\* isLocked is the status read before the update.
WritableSteps_after(currentStatus, body) ==
  LET after == IF body.status.typeof = "undefined" THEN currentStatus ELSE body.status.v
  IN  IF after \notin LOCKED_STATUSES /\ body.steps.kind = "array"
        THEN body.steps.arr ELSE <<>>

WritableSteps(currentStatus, body) ==
  IF currentStatus \notin LOCKED_STATUSES /\ body.steps.kind = "array"
    THEN body.steps.arr ELSE <<>>

\* The run table after the status statement of the handler.
UpdateRun(runs, status, id, t) ==
  IF status.typeof # "undefined"
    THEN UpdateRunStatus(runs, status.v, id, t)
    ELSE UpdateRunTouched(runs, id, t)

\* The handler run to completion at time t: the response code, the status it
\* read, and the two tables afterwards.
PutTestRunResult(id, body, t) ==
  LET idParam == parseInt(id)
      same(code, cur) == [code |-> code, cur |-> cur,
                          runs |-> test_runs, steps |-> test_run_steps]
  IN  IF idParam.isNaN THEN same(400, "")
      ELSE LET existing == SelectRun(test_runs, idParam.n)
           IN  IF existing = {} THEN same(404, "")
               ELSE LET currentStatus == (CHOOSE r \in existing : TRUE).status
                    IN  IF RejectLocked(currentStatus, body.steps)
                          THEN same(409, currentStatus)
                        ELSE IF InvalidStatus(body.status)
                          THEN same(400, currentStatus)
                        ELSE [code |-> 200, cur |-> currentStatus,
                              runs |-> UpdateRun(test_runs, body.status, idParam.n, t),
                              steps |-> UpdateRunSteps(test_run_steps,
                                           WritableSteps(currentStatus, body),
                                           idParam.n)]

(***************************************************************************)
(* Rows.                                                                   *)
(***************************************************************************)
\* INSERT INTO test_runs (name, status, project_id, source_test_case_id,
\* source_test_case_name) VALUES ($1, 'ready_to_test', $2, $3, $4); created_at
\* and updated_at take their default NOW().
TestRunRow(id, name, tc, t) ==
  [id |-> id, name |-> name, status |-> "ready_to_test",
   project_id |-> tc.project_id, source_test_case_id |-> tc.id,
   source_test_case_name |-> tc.name, created_at |-> t, updated_at |-> t,
   folder_id |-> NULL]

\* INSERT INTO test_run_steps (..., attachments, actual_results,
\* actual_result_attachments, checked) VALUES (..., $5, '', '', FALSE);
\* step_status takes its default 'not_run'.
TestRunStepRow_swapped(id, runId, step, copiedAttachments) ==
  [id |-> id, test_run_id |-> runId, position |-> step.position,
   step_description |-> step.expected_results,
   expected_results |-> step.step_description,
   attachments |-> JSONstringify(copiedAttachments),
   actual_results |-> "", actual_result_attachments |-> EmptyText,
   checked |-> FALSE, step_status |-> "not_run"]

TestRunStepRow(id, runId, step, copiedAttachments) ==
  [id |-> id, test_run_id |-> runId, position |-> step.position,
   step_description |-> step.step_description,
   expected_results |-> step.expected_results,
   attachments |-> JSONstringify(copiedAttachments),
   actual_results |-> "", actual_result_attachments |-> EmptyText,
   checked |-> FALSE, step_status |-> "not_run"]

\* formatTestRunStep: the step as the API returns it.
formatTestRunStep(row) ==
  [id |-> row.id, position |-> row.position,
   stepDescription |-> row.step_description,
   expectedResults |-> row.expected_results,
   attachments |-> parseAttachments(row.attachments),
   actualResults |-> row.actual_results,
   actualResultAttachments |-> parseAttachments(row.actual_result_attachments),
   checked |-> row.checked, stepStatus |-> row.step_status]

(***************************************************************************)
(* The stored state a server start may find.  The tables outlive the       *)
(* process (CREATE TABLE IF NOT EXISTS): two test cases with their steps,  *)
(* and, for the update handlers, two runs created from them earlier.       *)
(***************************************************************************)
\* initDb seeds one project; a second one was added later and owns nothing.
SeedProjects == {[id |-> 1, name |-> <<"P", "1">>], [id |-> 2, name |-> <<"P", "2">>]}

\* Texts a user types are sequences of characters.
SeedCases ==
  {[id |-> 1, name |-> <<"L", "o", "g", "i", "n">>, project_id |-> 1, folder_id |-> NULL],
   [id |-> 2, name |-> <<"O", "r", "d", "e", "r">>, project_id |-> 1, folder_id |-> NULL]}

\* emptyStep of TestCaseForm
emptyStep(position) ==
  [id |-> NULL, position |-> position, stepDescription |-> "", expectedResults |-> "",
   attachments |-> <<>>]

\* TestCaseForm before a test case is loaded: no project yet, one empty step.
FormClosed ==
  [testCaseId |-> <<>>, testCaseName |-> <<>>, testCaseProjectId |-> NULL,
   steps |-> <<emptyStep(1)>>]

\* The auto-save timer of TestRunForm: not armed, or armed with the time
\* left until it fires.
NoTimer == [armed |-> FALSE, left |-> 0]

\* TestRunForm before a run is loaded: the initial values of its state and
\* refs, no save sent yet.
RunFormClosed ==
  [mounted |-> FALSE, testRunId |-> <<>>, status |-> "ready_to_test", steps |-> <<>>,
   loadedRef |-> FALSE, autoSaveTimer |-> NoTimer,
   lastSavedStatusRef |-> "ready_to_test", saveState |-> "idle",
   opens |-> 0, changes |-> 0, saves |-> 0, flights |-> {}]

\* The tables and the forms that the run handlers leave alone.
InitLibrary ==
  /\ projects = SeedProjects
  /\ test_case_folders = {}
  /\ test_run_folders = {}
  /\ form = FormClosed
  /\ jira_links = {}
  /\ test_run_jira_links = {}
  /\ runForm = RunFormClosed

CaseStepRow(id, tcId, position, description, expected, attachments) ==
  [id |-> id, test_case_id |-> tcId, position |-> position,
   step_description |-> description, expected_results |-> expected,
   attachments |-> JSONstringify(attachments)]

SeedCaseSteps ==
  {CaseStepRow(1, 1, 1, "enter creds", "dashboard shown", <<>>),
   CaseStepRow(2, 1, 2, "log out", "login shown", <<>>),
   CaseStepRow(3, 2, 1, "submit", "order stored", <<>>)}

CaseRow(id) == CHOOSE tc \in SeedCases : tc.id = id

CaseStep(id) == CHOOSE s \in SeedCaseSteps : s.id = id

\* An uploaded image as the API names it.
Attachment(id, mimeType) == [id |-> id, mimeType |-> mimeType]

\* A run step a tester has filled in.
Edited(row) ==
  [row EXCEPT !.actual_results = "as expected",
              !.actual_result_attachments = JSONstringify(<<Attachment(7, "image/png")>>),
              !.checked = TRUE, !.step_status = "passed"]

\* Runs 1 (two steps, any status, its first step fresh or filled in) and 2.
InitRuns ==
  /\ InitLibrary
  /\ test_cases = SeedCases
  /\ test_case_steps = SeedCaseSteps
  /\ \E s \in validStatuses, edited \in BOOLEAN :
       /\ test_runs = {[TestRunRow(1, <<"R", "1">>, CaseRow(1), 0) EXCEPT !.status = s],
                       TestRunRow(2, <<"R", "2">>, CaseRow(2), 0)}
       /\ test_run_steps =
            {IF edited THEN Edited(TestRunStepRow(1, 1, CaseStep(1), <<>>))
                       ELSE TestRunStepRow(1, 1, CaseStep(1), <<>>),
             TestRunStepRow(2, 1, CaseStep(2), <<>>),
             TestRunStepRow(3, 2, CaseStep(3), <<>>)}
  /\ uploads = {}
  /\ serial = [test_runs |-> 2, test_run_steps |-> 3, uuid |-> 0, test_case_steps |-> 3,
              test_cases |-> 2, jira_links |-> 0, test_run_jira_links |-> 0]
  /\ now = 0
  /\ last = [op |-> "start"]
  /\ inflight = [c \in Clients |-> Idle]

(***************************************************************************)
(* Requests.                                                               *)
(***************************************************************************)
\* req.params.id: the text of the path
IdParams == {<<"1">>, <<"2">>, <<"3">>, <<"x">>}

NoStatus == [typeof |-> "undefined", v |-> ""]

StatusString(s) == [typeof |-> "string", v |-> s]

StatusInputs ==
  {NoStatus, [typeof |-> "number", v |-> "7"]}
    \cup {StatusString(s) : s \in validStatuses \cup {"bogus"}}

NoSteps == [kind |-> "undefined", arr |-> <<>>]

StepsArray(arr) == [kind |-> "array", arr |-> arr]

StepPatch(id, actualResults, actualResultAttachments, checked, stepStatus) ==
  [typeofId |-> "number", id |-> id, actualResults |-> actualResults,
   actualResultAttachments |-> actualResultAttachments,
   checked |-> checked, stepStatus |-> stepStatus]

PatchFilled(id) ==
  StepPatch(id, {"failed here"}, {<<Attachment(8, "image/jpeg")>>}, {TRUE}, {"failed"})

PatchCleared(id) == StepPatch(id, {""}, {<<>>}, {FALSE}, {"not_run"})

PatchChecked(id) == StepPatch(id, {}, {}, {TRUE}, {})

\* The step lists of the requests that exercise the status machine.
StepsBasic ==
  {NoSteps, [kind |-> "object", arr |-> <<>>], StepsArray(<<>>),
   StepsArray(<<PatchFilled(1)>>), StepsArray(<<PatchChecked(2)>>)}

Body(status, steps) == [status |-> status, steps |-> steps]

StatusRequests ==
  {[id |-> <<"1">>, body |-> Body(st, sp)] : st \in StatusInputs, sp \in StepsBasic}
    \cup {[id |-> i, body |-> Body(st, sp)] :
            i \in IdParams \ {<<"1">>},
            st \in {NoStatus, StatusString("passed")},
            sp \in {NoSteps, StepsArray(<<PatchChecked(3)>>)}}

\* Patches of step 1 of run 1: nothing supplied, one field supplied (with a
\* falsy and with another value), everything supplied.
PatchesOfOne ==
  {StepPatch(1, {}, {}, {}, {}), PatchFilled(1), PatchCleared(1)}
    \cup {StepPatch(1, {v}, {}, {}, {}) : v \in {"", "failed here"}}
    \cup {StepPatch(1, {}, {v}, {}, {}) : v \in {<<>>, <<Attachment(8, "image/jpeg")>>}}
    \cup {StepPatch(1, {}, {}, {v}, {}) : v \in BOOLEAN}
    \cup {StepPatch(1, {}, {}, {}, {v}) : v \in {"not_run", "passed_with_improvements"}}

\* Patches naming no step of run 1: a step of run 2, no step at all, and an
\* id that is not a number (the text "1").
PatchesOfNone ==
  {PatchFilled(3), PatchFilled(9), [PatchFilled(1) EXCEPT !.typeofId = "string"]}

\* The step lists of the requests that exercise the merge.
StepsMerge ==
  {StepsArray(<<p>>) : p \in PatchesOfOne \cup PatchesOfNone}
    \cup {StepsArray(<<p, q>>) : p \in PatchesOfNone, q \in {PatchChecked(1), PatchFilled(2)}}
    \cup {StepsArray(<<q, p>>) : p \in PatchesOfNone, q \in {PatchChecked(1)}}
    \cup {StepsArray(<<PatchFilled(1), PatchCleared(1)>>),
          StepsArray(<<PatchCleared(1), PatchChecked(2)>>)}

MergeRequests ==
  {[id |-> <<"1">>, body |-> Body(st, sp)] :
     st \in {NoStatus, StatusString("failed")}, sp \in StepsMerge}

(***************************************************************************)
(* PUT /service/test-runs/:id, handled without another request between its *)
(* statements.  Each request is handled at a later time than the one       *)
(* before.                                                                 *)
(***************************************************************************)
\* History for the properties: the run the request handled before this one
\* reopened (an accepted status-only PUT taking it from passed or failed to
\* another status), 0 when it reopened none.
Reopened(l) ==
  IF /\ l.op = "PUT /test-runs/:id" /\ l.code = 200
     /\ l.cur \in LOCKED_STATUSES
     /\ l.body.steps.kind = "undefined"
     /\ l.body.status.typeof = "string"
     /\ l.body.status.v \in validStatuses \ LOCKED_STATUSES
    THEN l.id.n ELSE 0

\* History for the properties: the request handled before this one was
\* accepted and had the same id and the same body.
Repeated(l, id, body) ==
  /\ l.op = "PUT /test-runs/:id"
  /\ l.code = 200
  /\ l.id = parseInt(id)
  /\ l.body = body

PutTestRun(id, body) ==
  /\ now < MaxTime
  /\ LET res == PutTestRunResult(id, body, now + 1)
     IN  /\ test_runs' = res.runs
         /\ test_run_steps' = res.steps
         /\ last' = [op |-> "PUT /test-runs/:id", id |-> parseInt(id), body |-> body,
                     code |-> res.code, cur |-> res.cur, reopened |-> Reopened(last),
                     repeated |-> Repeated(last, id, body)]
  /\ now' = now + 1
  /\ UNCHANGED <<library, test_cases, test_case_steps, uploads, serial, inflight>>

Init == InitRuns

Next == \E q \in StatusRequests \cup MergeRequests : PutTestRun(q.id, q.body)

Spec == Init /\ [][Next]_vars

(***************************************************************************)
(* POST /service/test-runs: a run created from a test case, its steps      *)
(* copied and every attachment file of theirs copied to a new id.          *)
(***************************************************************************)
NAME_MAX_LENGTH == 50

\* name.trim(), a name being a sequence of characters
RECURSIVE trimStart(_)
trimStart(name) ==
  IF name # <<>> /\ Head(name) = " " THEN trimStart(Tail(name)) ELSE name

RECURSIVE trimEnd(_)
trimEnd(name) ==
  IF name # <<>> /\ name[Len(name)] = " "
    THEN trimEnd(SubSeq(name, 1, Len(name) - 1)) ELSE name

trim(name) == trimEnd(trimStart(name))

\* testCaseId of the body: a number, a text, or missing.
\* typeof testCaseId === 'string'
\*   ? (testCaseId.startsWith('TC-') ? parseInt(testCaseId.slice(3), 10)
\*                                   : parseInt(testCaseId, 10))
\*   : testCaseId
tcNumId(testCaseId) ==
  IF testCaseId.typeof = "string"
    THEN IF Len(testCaseId.text) >= 3 /\ SubSeq(testCaseId.text, 1, 3) = <<"T", "C", "-">>
           THEN parseInt(SubSeq(testCaseId.text, 4, Len(testCaseId.text)))
           ELSE parseInt(testCaseId.text)
    ELSE Number(testCaseId.n)

\* !testCaseId || (typeof testCaseId !== 'string' && typeof testCaseId !== 'number')
MissingTestCaseId(testCaseId) ==
  \/ testCaseId.typeof \notin {"string", "number"}
  \/ testCaseId.typeof = "number" /\ testCaseId.n = 0
  \/ testCaseId.typeof = "string" /\ testCaseId.text = <<>>

\* Number.isNaN(tcNumId) || tcNumId < 1
InvalidTestCaseId(testCaseId) ==
  tcNumId(testCaseId).isNaN \/ tcNumId(testCaseId).n < 1

\* SELECT ... ORDER BY position ASC: the rows as a sequence.  Rows of equal
\* position are returned in the order of their ids.
RECURSIVE OrderByPosition(_)
OrderByPosition(rows) ==
  IF rows = {} THEN <<>>
  ELSE LET first == CHOOSE r \in rows : \A o \in rows :
                      \/ r.position < o.position
                      \/ r.position = o.position /\ r.id <= o.id
       IN  <<first>> \o OrderByPosition(rows \ {first})

\* SELECT ... FROM test_run_steps WHERE test_run_id = $1 ORDER BY position ASC
SelectRunSteps(steps, runId) == OrderByPosition({r \in steps : r.test_run_id = runId})

\* SELECT ... FROM test_case_steps WHERE test_case_id = $1 ORDER BY position ASC
SelectCaseSteps(steps, tcId) == OrderByPosition({r \in steps : r.test_case_id = tcId})

\* const ext = att.mimeType === 'image/png' ? '.png' : '.jpg'
ext(mimeType) == IF mimeType = "image/png" THEN ".png" ELSE ".jpg"

File(id, mimeType) == [id |-> id, ext |-> ext(mimeType)]

\* The entry pushed to copiedAttachments: the copy's id, the original's type.
CopiedAttachment_shared(att, newId) == Attachment(att.id, att.mimeType)

CopiedAttachment(att, newId) == Attachment(newId, att.mimeType)

\* The loop over the attachments of one source step, from originals[j] on.
\* acc holds the copies made, the files and the UUIDs drawn so far.  failAt is
\* the index of the attachment whose copyFile throws (0: none does): the
\* surrounding try/catch ends the loop and keeps the copies made before.
RECURSIVE CopyAttachments(_, _, _, _)
CopyAttachments(originals, j, failAt, acc) ==
  IF j > Len(originals) THEN acc
  ELSE LET att == originals[j]
           newId == acc.uuid + 1
       IN  IF att.id = 0 THEN CopyAttachments(originals, j + 1, failAt, acc)
           ELSE IF File(att.id, att.mimeType) \notin acc.files
             THEN CopyAttachments(originals, j + 1, failAt, acc)
           ELSE IF j = failAt
             THEN [acc EXCEPT !.uuid = newId, !.thrown = TRUE]
           ELSE CopyAttachments(originals, j + 1, failAt,
                  [acc EXCEPT !.uuid = newId,
                              !.files = @ \cup {File(newId, att.mimeType)},
                              !.copied = Append(@, CopiedAttachment(att, newId))])

\* The loop over the source steps, from source[k] on.  db holds the step
\* table, the files, the sequences and what went wrong so far.  fault names
\* the statement that fails in this request, if any.
RECURSIVE CopySteps(_, _, _, _, _)
CopySteps(source, k, runId, fault, db) ==
  IF k > Len(source) THEN db
  ELSE LET step == source[k]
           done == CopyAttachments(parseAttachments(step.attachments), 1,
                     IF fault.at = "copyFile" /\ fault.step = k THEN fault.file ELSE 0,
                     [copied |-> <<>>, files |-> db.files, uuid |-> db.uuid,
                      thrown |-> FALSE])
           id == db.step_id + 1
       IN  IF fault.at = "INSERT test_run_steps" /\ fault.step = k
             THEN [db EXCEPT !.files = done.files, !.uuid = done.uuid,
                             !.thrown = TRUE, !.code = 500]
             ELSE CopySteps(source, k + 1, runId, fault,
                    [db EXCEPT !.files = done.files, !.uuid = done.uuid,
                               !.thrown = @ \/ done.thrown,
                               !.step_id = id,
                               !.steps = @ \cup {TestRunStepRow(id, runId, step, done.copied)}])

NoFault == [at |-> "none", step |-> 0, file |-> 0]

\* The handler run to completion at time t.
PostTestRunResult(name, testCaseId, fault, t) ==
  LET same(code, thrown) ==
        [code |-> code, thrown |-> thrown, run |-> 0, runs |-> test_runs,
         steps |-> test_run_steps, files |-> uploads, serial |-> serial]
      tcResult == {tc \in test_cases : tc.id = tcNumId(testCaseId).n}
  IN  IF trim(name) = <<>> THEN same(400, FALSE)
      ELSE IF Len(trim(name)) > NAME_MAX_LENGTH THEN same(400, FALSE)
      ELSE IF MissingTestCaseId(testCaseId) THEN same(400, FALSE)
      ELSE IF InvalidTestCaseId(testCaseId) THEN same(400, FALSE)
      ELSE IF fault.at = "SELECT test_cases" THEN same(500, TRUE)
      ELSE IF tcResult = {} THEN same(404, FALSE)
      ELSE IF fault.at = "INSERT test_runs" THEN same(500, TRUE)
      ELSE
        LET tc == CHOOSE r \in tcResult : TRUE
            runId == serial.test_runs + 1
            runs == test_runs \cup {TestRunRow(runId, trim(name), tc, t)}
        IN  IF fault.at = "SELECT test_case_steps"
              THEN [same(500, TRUE) EXCEPT !.run = runId, !.runs = runs,
                                           !.serial.test_runs = runId]
              ELSE
                LET db == CopySteps(SelectCaseSteps(test_case_steps, tc.id), 1, runId, fault,
                            [steps |-> test_run_steps, files |-> uploads,
                             uuid |-> serial.uuid, step_id |-> serial.test_run_steps,
                             thrown |-> FALSE, code |-> 201])
                IN  [code |-> db.code, thrown |-> db.thrown, run |-> runId,
                     runs |-> runs, steps |-> db.steps, files |-> db.files,
                     serial |-> [serial EXCEPT !.test_runs = runId,
                                 !.test_run_steps = db.step_id,
                                 !.uuid = db.uuid]]

POST == "POST /test-runs"

PostTestRun(name, testCaseId, fault) ==
  /\ now < MaxTime
  /\ serial.test_runs < MaxRuns
  /\ LET res == PostTestRunResult(name, testCaseId, fault, now + 1)
     IN  /\ test_runs' = res.runs
         /\ test_run_steps' = res.steps
         /\ uploads' = res.files
         /\ serial' = res.serial
         /\ last' = [op |-> POST, name |-> name, testCaseId |-> testCaseId,
                     fault |-> fault, code |-> res.code, run |-> res.run,
                     thrown |-> res.thrown, reopened |-> 0]
  /\ now' = now + 1
  /\ UNCHANGED <<library, test_cases, test_case_steps, inflight>>

(***************************************************************************)
(* DELETE /service/attachments/:id                                         *)
(***************************************************************************)
\* fs.existsSync(pngPath) ? pngPath : fs.existsSync(jpgPath) ? jpgPath : null
filePath(files, id) ==
  IF [id |-> id, ext |-> ".png"] \in files THEN {[id |-> id, ext |-> ".png"]}
  ELSE IF [id |-> id, ext |-> ".jpg"] \in files THEN {[id |-> id, ext |-> ".jpg"]}
  ELSE {}

DELETE_ATTACHMENT == "DELETE /attachments/:id"

DeleteAttachmentHandled(id) ==
  /\ now < MaxTime
  /\ uploads' = uploads \ filePath(uploads, id)
  /\ last' = [op |-> DELETE_ATTACHMENT, id |-> id,
              code |-> IF filePath(uploads, id) = {} THEN 404 ELSE 204,
              reopened |-> 0]
  /\ now' = now + 1
  /\ UNCHANGED <<test_cases, test_case_steps, test_runs, test_run_steps, serial, inflight,
                 projects, test_case_folders, test_run_folders, links, runForm>>

\* The request sent by any client but the edit form.
DeleteAttachment(id) ==
  /\ DeleteAttachmentHandled(id)
  /\ UNCHANGED form

(***************************************************************************)
(* The stored state before any run exists: the steps of test case 1 carry  *)
(* uploaded images (one of them recorded without an id, as old records     *)
(* were), test case 2 has one step without images.                         *)
(***************************************************************************)
CasesWithAttachments ==
  {CaseStepRow(1, 1, 1, "enter creds", "dashboard shown",
               <<Attachment(1, "image/png"), Attachment(2, "image/jpeg")>>),
   CaseStepRow(2, 1, 2, "log out", "login shown",
               <<Attachment(0, "image/png"), Attachment(3, "image/png")>>),
   CaseStepRow(3, 2, 1, "submit", "order stored", <<>>)}

InitCases ==
  /\ InitLibrary
  /\ test_cases = SeedCases
  /\ test_case_steps = CasesWithAttachments
  /\ test_runs = {}
  /\ test_run_steps = {}
  /\ uploads = {File(1, "image/png"), File(2, "image/jpeg"), File(3, "image/png")}
  /\ serial = [test_runs |-> 0, test_run_steps |-> 0, uuid |-> 3, test_case_steps |-> 3,
              test_cases |-> 2, jira_links |-> 0, test_run_jira_links |-> 0]
  /\ now = 0
  /\ last = [op |-> "start"]
  /\ inflight = [c \in Clients |-> Idle]

LongName == [i \in 1..(NAME_MAX_LENGTH + 1) |-> "a"]

NameInputs == {<<>>, <<" ">>, <<"R">>, <<" ", "R", "1", " ">>, LongName}

TestCaseIdInputs ==
  {[typeof |-> "number", n |-> n] : n \in 0..3}
    \cup {[typeof |-> "string", text |-> v] :
            v \in {<<"T", "C", "-", "1">>, <<"2">>, <<"T", "C", "-">>, <<"x">>, <<>>}}
    \cup {[typeof |-> "undefined"]}

Case1 == [typeof |-> "number", n |-> 1]

Faults ==
  {NoFault}
    \cup {[at |-> a, step |-> 0, file |-> 0] :
            a \in {"SELECT test_cases", "INSERT test_runs", "SELECT test_case_steps"}}
    \cup {[at |-> "INSERT test_run_steps", step |-> k, file |-> 0] : k \in 1..MaxSteps}
    \cup {[at |-> "copyFile", step |-> k, file |-> j] : k \in 1..MaxSteps, j \in 1..MaxFiles}

CreateRequests ==
  {[name |-> n, testCaseId |-> Case1, fault |-> NoFault] : n \in NameInputs}
    \cup {[name |-> <<"R">>, testCaseId |-> c, fault |-> NoFault] : c \in TestCaseIdInputs}
    \cup {[name |-> <<"R">>, testCaseId |-> Case1, fault |-> f] : f \in Faults}

NextCreate ==
  \/ \E q \in CreateRequests : PostTestRun(q.name, q.testCaseId, q.fault)
  \/ \E id \in 0..(serial.uuid + 1) : DeleteAttachment(id)

SpecCreate == InitCases /\ [][NextCreate]_vars

(***************************************************************************)
(* PUT /service/test-runs/:id handled statement by statement.  query()     *)
(* takes a pooled connection per statement and nothing spans a request, so *)
(* between two awaited statements of one request any statement of another  *)
(* may run.  pc names the statement a request executes next.               *)
(***************************************************************************)
\* The request arrives; an id that is no number is answered at once.
Receive(c, id, body) ==
  /\ inflight[c].pc = "idle"
  /\ inflight' = [inflight EXCEPT ![c] =
       [pc |-> IF parseInt(id).isNaN THEN "done" ELSE "SELECT test_runs",
        id |-> parseInt(id), body |-> body, cur |-> "", i |-> 1,
        code |-> IF parseInt(id).isNaN THEN 400 ELSE 0]]
  /\ UNCHANGED <<library, test_cases, test_case_steps, test_runs, test_run_steps, uploads,
                 serial, now, last>>

\* SELECT id, status FROM test_runs WHERE id = $1, and the checks on its result
SelectStatement(c) ==
  LET q == inflight[c]
      existing == SelectRun(test_runs, q.id.n)
      currentStatus == (CHOOSE r \in existing : TRUE).status
  IN  /\ q.pc = "SELECT test_runs"
      /\ inflight' = [inflight EXCEPT ![c] =
           IF existing = {} THEN [q EXCEPT !.pc = "done", !.code = 404]
           ELSE IF RejectLocked(currentStatus, q.body.steps)
             THEN [q EXCEPT !.pc = "done", !.code = 409, !.cur = currentStatus]
           ELSE IF InvalidStatus(q.body.status)
             THEN [q EXCEPT !.pc = "done", !.code = 400, !.cur = currentStatus]
           ELSE [q EXCEPT !.pc = "UPDATE test_runs", !.cur = currentStatus]]
      /\ UNCHANGED <<library, test_cases, test_case_steps, test_runs, test_run_steps, uploads,
                     serial, now, last>>

\* UPDATE test_runs SET [status = $1,] updated_at = NOW() WHERE id = $2
UpdateRunStatement(c) ==
  LET q == inflight[c]
  IN  /\ q.pc = "UPDATE test_runs"
      /\ test_runs' = UpdateRun(test_runs, q.body.status, q.id.n, now + 1)
      /\ now' = now + 1
      /\ inflight' = [inflight EXCEPT ![c] = [q EXCEPT !.pc = "UPDATE test_run_steps"]]
      /\ UNCHANGED <<library, test_cases, test_case_steps, test_run_steps, uploads, serial, last>>

\* One turn of the loop over the patches: the UPDATE of patch i (none for an
\* id that is no number); after the last patch the handler goes on to reload.
UpdateStepStatement(c) ==
  LET q == inflight[c]
      list == WritableSteps(q.cur, q.body)
  IN  /\ q.pc = "UPDATE test_run_steps"
      /\ IF q.i > Len(list)
           THEN /\ inflight' = [inflight EXCEPT ![c] = [q EXCEPT !.pc = "reload"]]
                /\ UNCHANGED test_run_steps
           ELSE /\ inflight' = [inflight EXCEPT ![c] = [q EXCEPT !.i = q.i + 1]]
                /\ test_run_steps' = UpdateRunSteps(test_run_steps, <<list[q.i]>>, q.id.n)
      /\ UNCHANGED <<library, test_cases, test_case_steps, test_runs, uploads, serial, now, last>>

\* The two SELECTs of the reload and the response made of them.
ReloadStatements(c) ==
  LET q == inflight[c]
  IN  /\ q.pc = "reload"
      /\ inflight' = [inflight EXCEPT ![c] = [q EXCEPT !.pc = "done", !.code = 200]]
      /\ UNCHANGED <<library, test_cases, test_case_steps, test_runs, test_run_steps, uploads,
                     serial, now, last>>

\* The requests the two sessions send to run 1.
ConcurrentBodies ==
  {Body(st, sp) :
     st \in {NoStatus, StatusString("passed"), StatusString("in_progress")},
     sp \in {NoSteps, StepsArray(<<PatchChecked(1)>>),
             StepsArray(<<PatchFilled(1), PatchChecked(2)>>)}}

NextConc ==
  \E c \in Clients :
    \/ \E id \in {<<"1">>, <<"x">>}, body \in ConcurrentBodies : Receive(c, id, body)
    \/ SelectStatement(c)
    \/ UpdateRunStatement(c)
    \/ UpdateStepStatement(c)
    \/ ReloadStatements(c)

SpecConc == Init /\ [][NextConc]_vars

(***************************************************************************)
(* The library: projects and test cases.  DELETE follows the foreign keys  *)
(* of initDb: test_cases.project_id RESTRICT, test_case_steps.test_case_id *)
(* CASCADE, test_runs.project_id CASCADE, test_runs.source_test_case_id    *)
(* SET NULL, test_run_steps.test_run_id CASCADE.                           *)
(***************************************************************************)
\* raw.startsWith('TC-') ? parseInt(raw.slice(3), 10) : parseInt(raw, 10)
parseTestCaseId(raw) ==
  IF Len(raw) >= 3 /\ SubSeq(raw, 1, 3) = <<"T", "C", "-">>
    THEN parseInt(SubSeq(raw, 4, Len(raw)))
    ELSE parseInt(raw)

\* Number(projectId): a number is itself; a text is read whole, blank as 0
ToNumber(value) ==
  IF value.typeof = "number" THEN Number(value.n)
  ELSE IF trim(value.text) = <<>> THEN Number(0)
  ELSE IF \A i \in 1..Len(trim(value.text)) : IsDigit(trim(value.text)[i])
    THEN Number(parseDigits(trim(value.text), 0))
  ELSE NaN

\* projectId == null || (typeof projectId !== 'number' && typeof projectId !== 'string')
MissingProjectId(projectId) == projectId.typeof \notin {"number", "string"}

\* Number.isNaN(pid) || pid < 1
InvalidProjectId(pid) == pid.isNaN \/ pid.n < 1

\* value ?? fallback
Nullish(value, fallback) == IF value = {} THEN fallback ELSE CHOOSE v \in value : TRUE

\* position of the step at index i of the list: i + 1
StepPosition_index(i) == i

StepPosition(i) == i + 1

\* One element of the steps array of the body.
StepInput(stepDescription, expectedResults, attachments) ==
  [stepDescription |-> stepDescription, expectedResults |-> expectedResults,
   attachments |-> attachments]

\* for (let i = 0; i < stepList.length; i++) INSERT INTO test_case_steps ...
RECURSIVE InsertCaseSteps(_, _, _, _, _)
InsertCaseSteps(rows, id, stepList, i, nextId) ==
  IF ~(i < Len(stepList)) THEN rows
  ELSE LET s == stepList[i + 1]
       IN  InsertCaseSteps(
             rows \cup {CaseStepRow(nextId + 1, id, StepPosition(i),
                                    Nullish(s.stepDescription, ""),
                                    Nullish(s.expectedResults, ""),
                                    IF s.attachments.isArray THEN s.attachments.arr
                                                             ELSE <<>>)},
             id, stepList, i + 1, nextId + 1)

\* DELETE FROM test_case_steps WHERE test_case_id = $1
DeleteCaseSteps_all(rows, id) == {}

DeleteCaseSteps(rows, id) == {r \in rows : r.test_case_id # id}

\* UPDATE test_cases SET name = $1, project_id = $2 WHERE id = $3
UpdateCase(cases, name, pid, id) ==
  {IF r.id = id THEN [r EXCEPT !.name = name, !.project_id = pid] ELSE r : r \in cases}

\* The handler of PUT /service/test-cases/:id run to completion.
PutTestCaseResult(idParam, name, projectId, steps) ==
  LET id == parseTestCaseId(idParam)
      pid == ToNumber(projectId)
      same(code) == [code |-> code, cases |-> test_cases, steps |-> test_case_steps,
                     next |-> serial.test_case_steps]
  IN  IF id.isNaN THEN same(400)
      ELSE IF trim(name) = <<>> THEN same(400)
      ELSE IF Len(trim(name)) > NAME_MAX_LENGTH THEN same(400)
      ELSE IF MissingProjectId(projectId) THEN same(400)
      ELSE IF InvalidProjectId(pid) THEN same(400)
      ELSE IF {r \in test_cases : r.id = id.n} = {} THEN same(404)
      ELSE IF {r \in projects : r.id = pid.n} = {} THEN same(500)
      ELSE [code |-> 200,
            cases |-> UpdateCase(test_cases, trim(name), pid.n, id.n),
            steps |-> IF steps.kind = "array"
                        THEN InsertCaseSteps(DeleteCaseSteps(test_case_steps, id.n),
                                             id.n, steps.arr, 0, serial.test_case_steps)
                        ELSE test_case_steps,
            next |-> IF steps.kind = "array"
                       THEN serial.test_case_steps + Len(steps.arr)
                       ELSE serial.test_case_steps]

PUT_CASE == "PUT /test-cases/:id"

PutTestCaseHandled(idParam, name, projectId, steps) ==
  /\ now < MaxTime
  /\ LET res == PutTestCaseResult(idParam, name, projectId, steps)
     IN  /\ test_cases' = res.cases
         /\ test_case_steps' = res.steps
         /\ serial' = [serial EXCEPT !.test_case_steps = res.next]
         /\ last' = [op |-> PUT_CASE, id |-> parseTestCaseId(idParam), name |-> name,
                     projectId |-> projectId, steps |-> steps, code |-> res.code]
  /\ now' = now + 1
  /\ UNCHANGED <<test_runs, test_run_steps, uploads, inflight, projects,
                 test_case_folders, test_run_folders, links, runForm>>

\* The request sent by any client but the edit form.
PutTestCase(idParam, name, projectId, steps) ==
  /\ PutTestCaseHandled(idParam, name, projectId, steps)
  /\ UNCHANGED form

\* ON DELETE SET NULL of test_runs.source_test_case_id
SetNullSource_cascade(runs, id) == {r \in runs : r.source_test_case_id # id}

SetNullSource(runs, id) ==
  {IF r.source_test_case_id = id THEN [r EXCEPT !.source_test_case_id = NULL] ELSE r :
     r \in runs}

DELETE_CASE == "DELETE /test-cases/:id"

\* DELETE FROM test_cases WHERE id = $1
DeleteTestCase(idParam) ==
  LET id == parseTestCaseId(idParam)
      found == ~id.isNaN /\ \E r \in test_cases : r.id = id.n
  IN  /\ now < MaxTime
      /\ now' = now + 1
      /\ last' = [op |-> DELETE_CASE, id |-> id,
                  code |-> IF id.isNaN THEN 400 ELSE IF found THEN 204 ELSE 404]
      /\ IF found
           THEN /\ test_cases' = {r \in test_cases : r.id # id.n}
                /\ test_case_steps' = DeleteCaseSteps(test_case_steps, id.n)
                /\ test_runs' = SetNullSource(test_runs, id.n)
                /\ jira_links' = {l \in jira_links : l.test_case_id # id.n}
           ELSE UNCHANGED <<test_cases, test_case_steps, test_runs, jira_links>>
      /\ UNCHANGED <<test_run_steps, uploads, serial, inflight, projects,
                     test_case_folders, test_run_folders, form, test_run_jira_links,
                     runForm>>

\* The foreign key of test_cases.project_id: ON DELETE RESTRICT raises 23503
Restricted_never(cases, id) == FALSE

Restricted(cases, id) == \E r \in cases : r.project_id = id

DELETE_PROJECT == "DELETE /projects/:id"

\* DELETE FROM projects WHERE id = $1
DeleteProject(idParam) ==
  LET id == parseInt(idParam)
      found == ~id.isNaN /\ \E r \in projects : r.id = id.n
      code == IF id.isNaN THEN 400
              ELSE IF ~found THEN 404
              ELSE IF Restricted(test_cases, id.n) THEN 409 ELSE 204
      gone == {r.id : r \in {x \in test_runs : x.project_id = id.n}}
  IN  /\ now < MaxTime
      /\ now' = now + 1
      /\ last' = [op |-> DELETE_PROJECT, id |-> id, code |-> code]
      /\ IF code = 204
           THEN /\ projects' = {r \in projects : r.id # id.n}
                /\ test_runs' = {r \in test_runs : r.id \notin gone}
                /\ test_run_steps' = {r \in test_run_steps : r.test_run_id \notin gone}
           ELSE UNCHANGED <<projects, test_runs, test_run_steps>>
      /\ UNCHANGED <<test_cases, test_case_steps, uploads, serial, inflight,
                     test_case_folders, test_run_folders, form, links, runForm>>

(***************************************************************************)
(* TestCaseForm: the edit form of one test case.  Its steps state is a     *)
(* list; each handler is one setSteps.  A step the server has not stored   *)
(* yet has no id (NULL).                                                   *)
(***************************************************************************)
MaxFormSteps == 3

\* formatTestCaseStep: the step of a test case as the API returns it
formatTestCaseStep(row) ==
  [id |-> row.id, position |-> row.position,
   stepDescription |-> row.step_description,
   expectedResults |-> row.expected_results,
   attachments |-> parseAttachments(row.attachments)]

\* steps: stepsResult.rows.map(formatTestCaseStep) of GET and PUT /test-cases/:id
StepsResponse(rows, id) ==
  LET ordered == SelectCaseSteps(rows, id)
  IN  [k \in 1..Len(ordered) |-> formatTestCaseStep(ordered[k])]

\* next.map((step, i) => ({ ...step, position: i + 1 }))
Renumber_kept(next) == next

Renumber(next) == [k \in 1..Len(next) |-> [next[k] EXCEPT !.position = (k - 1) + 1]]

\* The tables, the files, the clock and the last request: what the form's
\* own handlers leave alone.
server == <<test_cases, test_case_steps, test_runs, test_run_steps, uploads, serial,
            now, last, inflight, projects, test_case_folders, test_run_folders,
            links, runForm>>

\* fetchTestCase: GET /service/test-cases/:id answered 200 fills the form; the
\* ids of the steps are dropped, an empty list becomes one empty step.
fetchTestCase(testCaseId) ==
  LET id == parseTestCaseId(testCaseId)
      data == StepsResponse(test_case_steps, id.n)
      rawSteps == IF Len(data) > 0 THEN data ELSE <<emptyStep(1)>>
  IN  /\ ~id.isNaN
      /\ \E tc \in test_cases :
           /\ tc.id = id.n
           /\ form' = [testCaseId |-> testCaseId, testCaseName |-> tc.name,
                       testCaseProjectId |-> tc.project_id,
                       steps |-> [k \in 1..Len(rawSteps) |->
                                    [rawSteps[k] EXCEPT !.id = NULL,
                                                        !.position = (k - 1) + 1]]]
      /\ UNCHANGED server

\* setSteps((prev) => [...prev, emptyStep(prev.length + 1)])
handleAddStep ==
  /\ Len(form.steps) < MaxFormSteps
  /\ form' = [form EXCEPT !.steps = Append(@, emptyStep(Len(@) + 1))]
  /\ UNCHANGED server

\* Exchange of the elements at the 0-based indexes i and j.
Swapped(prev, i, j) ==
  [k \in 1..Len(prev) |-> IF k = i + 1 THEN prev[j + 1]
                          ELSE IF k = j + 1 THEN prev[i + 1] ELSE prev[k]]

\* if (index <= 0) return; swap with the step before, renumber
handleMoveStepUp(index) ==
  /\ form' = [form EXCEPT !.steps =
                IF index <= 0 THEN @ ELSE Renumber(Swapped(@, index - 1, index))]
  /\ UNCHANGED server

\* if (index >= prev.length - 1) return prev; swap with the step after, renumber
handleMoveStepDown(index) ==
  /\ form' = [form EXCEPT !.steps =
                IF index >= Len(@) - 1 THEN @ ELSE Renumber(Swapped(@, index, index + 1))]
  /\ UNCHANGED server

\* prev.filter((_, i) => i !== index)
Without(prev, index) ==
  [k \in 1..(Len(prev) - 1) |-> IF k < index + 1 THEN prev[k] ELSE prev[k + 1]]

\* if (prev.length <= 1) return prev; remove the step, renumber
handleDeleteStep(index) ==
  /\ form' = [form EXCEPT !.steps =
                IF Len(@) <= 1 THEN @ ELSE Renumber(Without(@, index))]
  /\ UNCHANGED server

\* The body handleSave sends: the three fields of each step, always present.
SavedSteps(steps) ==
  StepsArray([k \in 1..Len(steps) |->
                StepInput({steps[k].stepDescription}, {steps[k].expectedResults},
                          [isArray |-> TRUE, arr |-> steps[k].attachments])])

\* handleSave: PUT /service/test-cases/:id with the form's name, project and
\* steps; on 200 the steps are taken back from the response when it has any.
handleSave ==
  LET id == parseTestCaseId(form.testCaseId)
      projectId == [typeof |-> "number", n |-> form.testCaseProjectId]
  IN  /\ form.testCaseId # <<>>
      /\ form.testCaseProjectId # NULL
      /\ PutTestCaseHandled(form.testCaseId, form.testCaseName, projectId,
                            SavedSteps(form.steps))
      /\ LET saved == StepsResponse(test_case_steps', id.n)
         IN  form' = IF last'.code = 200 /\ Len(saved) > 0
                       THEN [form EXCEPT !.steps =
                               [k \in 1..Len(saved) |->
                                  [saved[k] EXCEPT !.position = (k - 1) + 1]]]
                       ELSE form

(***************************************************************************)
(* The library in use: test cases are edited, moved and deleted, projects  *)
(* deleted, while runs created from the cases are executed.                *)
(***************************************************************************)
\* Run 1 was created from test case 1 when its files 1, 2 and 3 were there
\* (copies 4, 5 and 6); it is being executed or has passed, and its first
\* step is fresh or filled in.
InitRunOfCase ==
  /\ InitLibrary
  /\ test_cases = SeedCases
  /\ test_case_steps = CasesWithAttachments
  /\ \E s \in {"in_progress", "passed"}, edited \in BOOLEAN :
       LET first == TestRunStepRow(1, 1, CaseStep(1),
                      <<Attachment(4, "image/png"), Attachment(5, "image/jpeg")>>)
       IN  /\ test_runs = {[TestRunRow(1, <<"R", "1">>, CaseRow(1), 0) EXCEPT !.status = s]}
           /\ test_run_steps =
                {IF edited THEN Edited(first) ELSE first,
                 TestRunStepRow(2, 1, CaseStep(2), <<Attachment(6, "image/png")>>)}
  /\ uploads = {File(1, "image/png"), File(2, "image/jpeg"), File(3, "image/png"),
                File(4, "image/png"), File(5, "image/jpeg"), File(6, "image/png")}
  /\ serial = [test_runs |-> 1, test_run_steps |-> 2, uuid |-> 6, test_case_steps |-> 3,
              test_cases |-> 2, jira_links |-> 0, test_run_jira_links |-> 0]
  /\ now = 0
  /\ last = [op |-> "start"]
  /\ inflight = [c \in Clients |-> Idle]

\* req.params.id of a test case
CaseIdParams == {<<"T", "C", "-", "1">>, <<"2">>, <<"9">>, <<"x">>}

\* req.body.projectId
ProjectIdInputs ==
  {[typeof |-> "number", n |-> n] : n \in {0, 1, 2, 7}}
    \cup {[typeof |-> "string", text |-> v] : v \in {<<"2">>, <<"1", "x">>, <<" ">>}}
    \cup {[typeof |-> "undefined"]}

Project1 == [typeof |-> "number", n |-> 1]

\* req.body.steps of PUT /test-cases/:id: absent, no array, and lists of
\* zero to three steps whose fields are present or left out.
NoArray == [isArray |-> FALSE, arr |-> <<>>]

ArrayOf(arr) == [isArray |-> TRUE, arr |-> arr]

StepA == StepInput({"open cart"}, {"cart shown"}, ArrayOf(<<Attachment(2, "image/jpeg")>>))

StepB == StepInput({"pay"}, {}, NoArray)

StepC == StepInput({}, {"receipt"}, ArrayOf(<<>>))

CaseStepsInputs ==
  {NoSteps, [kind |-> "object", arr |-> <<>>], StepsArray(<<>>), StepsArray(<<StepA>>),
   StepsArray(<<StepB, StepA>>), StepsArray(<<StepC, StepA, StepB>>)}

NewName == <<" ", "L", "2", " ">>

\* The requests to PUT /test-cases/:id not sent by the form: steps replaced,
\* renamed or moved to another project, and the ones that are refused.
CaseRequests ==
  {[id |-> i, name |-> NewName, projectId |-> Project1, steps |-> st] :
     i \in {<<"T", "C", "-", "1">>, <<"2">>}, st \in CaseStepsInputs}
    \cup {[id |-> <<"2">>, name |-> NewName, projectId |-> pr, steps |-> StepsArray(<<StepA>>)] :
            pr \in ProjectIdInputs}
    \cup {[id |-> i, name |-> n, projectId |-> Project1, steps |-> StepsArray(<<StepA>>)] :
            i \in CaseIdParams, n \in {<<"L", "o", "g", "i", "n">>, <<" ">>, LongName}}

\* The requests to PUT /test-runs/:id of a run in use.
RunRequests ==
  {[id |-> <<"1">>, body |-> b] :
     b \in {Body(StatusString("passed"), StepsArray(<<PatchFilled(1)>>)),
            Body(NoStatus, StepsArray(<<PatchCleared(1), PatchChecked(2)>>)),
            Body(StatusString("na"), NoSteps)}}

NextCases ==
  \/ \E q \in CaseRequests : PutTestCase(q.id, q.name, q.projectId, q.steps)
  \/ \E id \in CaseIdParams : DeleteTestCase(id)
  \/ \E id \in {<<"1">>, <<"2">>, <<"9">>, <<"x">>} : DeleteProject(id)
  \/ \E q \in RunRequests : PutTestRun(q.id, q.body)
  \/ \E tc \in {Case1, [typeof |-> "string", text |-> <<"T", "C", "-", "2">>]} :
       PostTestRun(<<"R">>, tc, NoFault)

SpecCases == InitRunOfCase /\ [][NextCases]_vars

\* A test case is edited in the form and saved, and runs are created from
\* what is stored.
NextForm ==
  \/ \E id \in {<<"T", "C", "-", "1">>, <<"2">>, <<"9">>} : fetchTestCase(id)
  \/ handleAddStep
  \/ \E index \in 0..(Len(form.steps) - 1) :
       \/ handleMoveStepUp(index)
       \/ handleMoveStepDown(index)
       \/ handleDeleteStep(index)
  \/ handleSave
  \/ \E tc \in {Case1, [typeof |-> "string", text |-> <<"T", "C", "-", "2">>]} :
       PostTestRun(<<"R">>, tc, NoFault)

SpecForm == InitCases /\ [][NextForm]_vars

(***************************************************************************)
(* Folders of test cases and of runs.  A folder is a row (id, name,        *)
(* project_id); folder_id of a test case or run names its folder or is     *)
(* NULL.  Clients offer the stored folders, so a PATCH names a stored      *)
(* folder or none.                                                         *)
(***************************************************************************)
FolderRow(id) ==
  [id |-> id, name |-> IF id = 1 THEN <<"F", "1">> ELSE <<"F", "2">>, project_id |-> 1]

\* req.body.folderId == null ? null : Number(req.body.folderId)
FolderIdInputs ==
  {[typeof |-> "undefined"], [typeof |-> "string", text |-> <<"x">>],
   [typeof |-> "string", text |-> <<"2">>]}
    \cup {[typeof |-> "number", n |-> n] : n \in {1, 2}}

\* UPDATE ... SET folder_id = $1 WHERE id = $2
SetFolder(rows, folderId, id) ==
  {IF r.id = id THEN [r EXCEPT !.folder_id = folderId] ELSE r : r \in rows}

\* UPDATE ... SET folder_id = NULL WHERE folder_id = $1
ClearFolder_cascade(rows, id) == {r \in rows : r.folder_id # id}

ClearFolder(rows, id) ==
  {IF r.folder_id = id THEN [r EXCEPT !.folder_id = NULL] ELSE r : r \in rows}

\* The answer of PATCH .../folder and the folder it stores.
PatchFolderResult(id, folderId, folders) ==
  LET value == IF folderId.typeof = "undefined" THEN Number(NULL) ELSE ToNumber(folderId)
  IN  [code |-> IF id.isNaN \/ value.isNaN THEN 400 ELSE 204,
       offered |-> value.isNaN \/ value.n = NULL \/ \E f \in folders : f.id = value.n,
       folder |-> value]

PATCH_CASE_FOLDER == "PATCH /test-cases/:id/folder"

PatchTestCaseFolder(idParam, folderId) ==
  LET id == parseTestCaseId(idParam)
      res == PatchFolderResult(id, folderId, test_case_folders)
  IN  /\ now < MaxTime
      /\ res.offered
      /\ now' = now + 1
      /\ last' = [op |-> PATCH_CASE_FOLDER, id |-> id, code |-> res.code]
      /\ test_cases' = IF res.code = 204 THEN SetFolder(test_cases, res.folder.n, id.n)
                                         ELSE test_cases
      /\ UNCHANGED <<test_case_steps, test_runs, test_run_steps, uploads, serial,
                     inflight, library>>

PATCH_RUN_FOLDER == "PATCH /test-runs/:id/folder"

PatchTestRunFolder(idParam, folderId) ==
  LET id == parseInt(idParam)
      res == PatchFolderResult(id, folderId, test_run_folders)
  IN  /\ now < MaxTime
      /\ res.offered
      /\ now' = now + 1
      /\ last' = [op |-> PATCH_RUN_FOLDER, id |-> id, code |-> res.code]
      /\ test_runs' = IF res.code = 204 THEN SetFolder(test_runs, res.folder.n, id.n)
                                        ELSE test_runs
      /\ UNCHANGED <<test_cases, test_case_steps, test_run_steps, uploads, serial,
                     inflight, library>>

\* The answer of DELETE of a folder: 400, 404 when no row was deleted, 204.
DeleteFolderCode(id, folders) ==
  IF id.isNaN THEN 400
  ELSE IF \E f \in folders : f.id = id.n THEN 204 ELSE 404

DELETE_CASE_FOLDER == "DELETE /test-case-folders/:id"

DeleteTestCaseFolder(idParam) ==
  LET id == parseInt(idParam)
  IN  /\ now < MaxTime
      /\ now' = now + 1
      /\ last' = [op |-> DELETE_CASE_FOLDER, id |-> id,
                  code |-> DeleteFolderCode(id, test_case_folders)]
      /\ test_cases' = IF id.isNaN THEN test_cases ELSE ClearFolder(test_cases, id.n)
      /\ test_case_folders' =
           IF id.isNaN THEN test_case_folders
           ELSE {f \in test_case_folders : f.id # id.n}
      /\ UNCHANGED <<test_case_steps, test_runs, test_run_steps, uploads, serial,
                     inflight, projects, test_run_folders, form, links, runForm>>

DELETE_RUN_FOLDER == "DELETE /test-run-folders/:id"

DeleteTestRunFolder(idParam) ==
  LET id == parseInt(idParam)
  IN  /\ now < MaxTime
      /\ now' = now + 1
      /\ last' = [op |-> DELETE_RUN_FOLDER, id |-> id,
                  code |-> DeleteFolderCode(id, test_run_folders)]
      /\ test_runs' = IF id.isNaN THEN test_runs ELSE ClearFolder(test_runs, id.n)
      /\ test_run_folders' =
           IF id.isNaN THEN test_run_folders
           ELSE {f \in test_run_folders : f.id # id.n}
      /\ UNCHANGED <<test_cases, test_case_steps, test_run_steps, uploads, serial,
                     inflight, projects, test_case_folders, form, links, runForm>>

\* Two folders of each kind; test case 1 and run 1 are in folder 1, test
\* case 2 and run 2 in none.
InitFolders ==
  /\ projects = SeedProjects
  /\ test_case_folders = {FolderRow(1), FolderRow(2)}
  /\ test_run_folders = {FolderRow(1), FolderRow(2)}
  /\ form = FormClosed
  /\ jira_links = {}
  /\ test_run_jira_links = {}
  /\ runForm = RunFormClosed
  /\ test_cases = SetFolder(SeedCases, 1, 1)
  /\ test_case_steps = SeedCaseSteps
  /\ test_runs = SetFolder({TestRunRow(1, <<"R", "1">>, CaseRow(1), 0),
                            TestRunRow(2, <<"R", "2">>, CaseRow(2), 0)}, 1, 1)
  /\ test_run_steps = {TestRunStepRow(1, 1, CaseStep(1), <<>>),
                       TestRunStepRow(2, 1, CaseStep(2), <<>>),
                       TestRunStepRow(3, 2, CaseStep(3), <<>>)}
  /\ uploads = {}
  /\ serial = [test_runs |-> 2, test_run_steps |-> 3, uuid |-> 0, test_case_steps |-> 3,
              test_cases |-> 2, jira_links |-> 0, test_run_jira_links |-> 0]
  /\ now = 0
  /\ last = [op |-> "start"]
  /\ inflight = [c \in Clients |-> Idle]

NextFolders ==
  \/ \E id \in CaseIdParams, f \in FolderIdInputs : PatchTestCaseFolder(id, f)
  \/ \E id \in IdParams, f \in FolderIdInputs : PatchTestRunFolder(id, f)
  \/ \E id \in {<<"1">>, <<"2">>, <<"9">>, <<"x">>} : DeleteTestCaseFolder(id)
  \/ \E id \in {<<"1">>, <<"2">>, <<"9">>, <<"x">>} : DeleteTestRunFolder(id)

SpecFolders == InitFolders /\ [][NextFolders]_vars

(***************************************************************************)
(* DELETE /service/test-runs/:id.  The steps of the run go with it         *)
(* (test_run_steps.test_run_id ON DELETE CASCADE).                         *)
(***************************************************************************)
DELETE_RUN == "DELETE /test-runs/:id"

\* The rows DELETE FROM test_runs WHERE id = $1 removes.
DeletedRuns(runs, id) == {r \in runs : r.id = id}

DeleteTestRun(idParam) ==
  LET id == parseInt(idParam)
      gone == IF id.isNaN THEN {} ELSE DeletedRuns(test_runs, id.n)
  IN  /\ now < MaxTime
      /\ now' = now + 1
      /\ last' = [op |-> DELETE_RUN, id |-> id,
                  code |-> IF id.isNaN THEN 400 ELSE IF gone = {} THEN 404 ELSE 204]
      /\ test_runs' = test_runs \ gone
      /\ test_run_steps' =
           {s \in test_run_steps : s.test_run_id \notin {r.id : r \in gone}}
      /\ UNCHANGED <<test_cases, test_case_steps, uploads, serial, inflight, library>>

\* The library in use, runs deleted as well.
NextRuns ==
  \/ NextCases
  \/ \E id \in {<<"1">>, <<"9">>, <<"x">>} : DeleteTestRun(id)

SpecRuns == InitRunOfCase /\ [][NextRuns]_vars

(***************************************************************************)
(* The status of a step in PUT /service/test-runs/:id.  step_status is     *)
(* TEXT NOT NULL DEFAULT 'not_run'.                                        *)
(***************************************************************************)
\* type StepStatus
StepStatus == {"not_run", "passed", "failed", "na", "passed_with_improvements"}

\* stepStatus of a step of the body: absent, a StepStatus, or another text.
StepStatusInputs == {{}} \cup {{v} : v \in StepStatus \cup {"blocked"}}

StepStatusRequests ==
  {[id |-> <<"1">>, body |-> Body(st, StepsArray(<<StepPatch(1, {}, {}, {}, v)>>))] :
     st \in {NoStatus, StatusString("in_progress")}, v \in StepStatusInputs}
    \cup {[id |-> <<"2">>, body |-> Body(NoStatus, StepsArray(<<StepPatch(3, {}, {}, {}, v)>>))] :
            v \in StepStatusInputs}

NextStepStatus == \E q \in StepStatusRequests : PutTestRun(q.id, q.body)

SpecStepStatus == InitRuns /\ [][NextStepStatus]_vars

(***************************************************************************)
(* Links to Jira issues.  jira_links has UNIQUE(test_case_id,              *)
(* jira_issue_key) and its test_case_id references test_cases ON DELETE    *)
(* CASCADE; the INSERT of a run link names the same conflict target on     *)
(* (test_run_id, jira_issue_key).                                          *)
(***************************************************************************)
MaxLinkRequests == 3

\* String.prototype.toUpperCase on the letters that occur in the keys.
UpperCase(c) == CASE c = "a" -> "A" [] c = "b" -> "B" [] OTHER -> c

toUpperCase(text) == [i \in 1..Len(text) |-> UpperCase(text[i])]

\* jiraIssueKey.trim().toUpperCase()
IssueKey_trimmed(text) == trim(text)

IssueKey(text) == toUpperCase(trim(text))

\* !testCaseId || typeof testCaseId !== 'string'
MissingEntityId(value) == value.typeof # "string" \/ value.text = <<>>

\* !jiraIssueKey || typeof jiraIssueKey !== 'string' || !jiraIssueKey.trim()
MissingIssueKey(value) == value.typeof # "string" \/ trim(value.text) = <<>>

\* id.startsWith('TC-') ? parseInt(id.slice(3), 10) : parseInt(id, 10)
PrefixedId(text, prefix) ==
  IF Len(text) >= 3 /\ SubSeq(text, 1, 3) = prefix
    THEN parseInt(SubSeq(text, 4, Len(text)))
    ELSE parseInt(text)

\* INSERT ... ON CONFLICT (entity, jira_issue_key) DO NOTHING
Conflict(pairs, entity, key) == <<entity, key>> \in pairs

\* The (test_case_id, jira_issue_key) and (test_run_id, jira_issue_key) stored.
CaseLinkPairs(table) == {<<l.test_case_id, l.jira_issue_key>> : l \in table}

RunLinkPairs(table) == {<<l.test_run_id, l.jira_issue_key>> : l \in table}

\* The answer of a POST of a link: 400 for a bad body, 500 when the INSERT
\* raises (no row of the entity), 409 when no row was inserted, else 201.
PostLinkCode(entityId, jiraIssueKey, prefix, pairs, entities, checked) ==
  IF MissingEntityId(entityId) \/ MissingIssueKey(jiraIssueKey) THEN 400
  ELSE LET numericId == PrefixedId(entityId.text, prefix)
       IN  IF numericId.isNaN THEN 400
           ELSE IF Conflict(pairs, numericId.n, IssueKey(jiraIssueKey.text)) THEN 409
           ELSE IF checked /\ ~\E r \in entities : r.id = numericId.n THEN 500
           ELSE 201

JiraLinkRow(id, test_case_id, key) ==
  [id |-> id, test_case_id |-> test_case_id, jira_issue_key |-> key]

TestRunJiraLinkRow(id, test_run_id, key) ==
  [id |-> id, test_run_id |-> test_run_id, jira_issue_key |-> key]

POST_LINK == "POST /jira/links"

PostJiraLink(testCaseId, jiraIssueKey) ==
  LET code == PostLinkCode(testCaseId, jiraIssueKey, <<"T", "C", "-">>,
                           CaseLinkPairs(jira_links), test_cases, TRUE)
      id == serial.jira_links + 1
  IN  /\ now < MaxLinkRequests
      /\ now' = now + 1
      /\ last' = [op |-> POST_LINK, entityId |-> testCaseId, key |-> jiraIssueKey,
                  code |-> code]
      /\ jira_links' =
           IF code = 201
             THEN jira_links \cup
                    {JiraLinkRow(id, PrefixedId(testCaseId.text, <<"T", "C", "-">>).n,
                                 IssueKey(jiraIssueKey.text))}
             ELSE jira_links
      /\ serial' = IF code \in {201, 409} THEN [serial EXCEPT !.jira_links = id] ELSE serial
      /\ UNCHANGED <<test_cases, test_case_steps, test_runs, test_run_steps, uploads,
                     inflight, projects, test_case_folders, test_run_folders, form,
                     test_run_jira_links, runForm>>

POST_RUN_LINK == "POST /jira/run-links"

\* Whether test_run_id references test_runs is not part of the statement:
\* the INSERT for a run that is not stored either raises or stores the row.
PostJiraRunLink(testRunId, jiraIssueKey) ==
  \E checked \in BOOLEAN :
    LET code == PostLinkCode(testRunId, jiraIssueKey, <<"T", "R", "-">>,
                             RunLinkPairs(test_run_jira_links), test_runs, checked)
        id == serial.test_run_jira_links + 1
    IN  /\ now < MaxLinkRequests
        /\ now' = now + 1
        /\ last' = [op |-> POST_RUN_LINK, entityId |-> testRunId, key |-> jiraIssueKey,
                    code |-> code]
        /\ test_run_jira_links' =
             IF code = 201
               THEN test_run_jira_links \cup
                      {TestRunJiraLinkRow(id, PrefixedId(testRunId.text, <<"T", "R", "-">>).n,
                                          IssueKey(jiraIssueKey.text))}
               ELSE test_run_jira_links
        /\ serial' = IF code \in {201, 409}
                       THEN [serial EXCEPT !.test_run_jira_links = id] ELSE serial
        /\ UNCHANGED <<test_cases, test_case_steps, test_runs, test_run_steps, uploads,
                       inflight, projects, test_case_folders, test_run_folders, form,
                       jira_links, runForm>>

\* The answer of DELETE of a link: 400, 404 when no row was deleted, 204.
DeleteLinkCode(id, table) ==
  IF id.isNaN THEN 400 ELSE IF \E l \in table : l.id = id.n THEN 204 ELSE 404

DELETE_LINK == "DELETE /jira/links/:id"

DeleteJiraLink(idParam) ==
  LET id == parseInt(idParam)
  IN  /\ now < MaxLinkRequests
      /\ now' = now + 1
      /\ last' = [op |-> DELETE_LINK, id |-> id, code |-> DeleteLinkCode(id, jira_links)]
      /\ jira_links' = IF id.isNaN THEN jira_links ELSE {l \in jira_links : l.id # id.n}
      /\ UNCHANGED <<test_cases, test_case_steps, test_runs, test_run_steps, uploads,
                     serial, inflight, projects, test_case_folders, test_run_folders,
                     form, test_run_jira_links, runForm>>

DELETE_RUN_LINK == "DELETE /jira/run-links/:id"

DeleteJiraRunLink(idParam) ==
  LET id == parseInt(idParam)
  IN  /\ now < MaxLinkRequests
      /\ now' = now + 1
      /\ last' = [op |-> DELETE_RUN_LINK, id |-> id,
                  code |-> DeleteLinkCode(id, test_run_jira_links)]
      /\ test_run_jira_links' =
           IF id.isNaN THEN test_run_jira_links
           ELSE {l \in test_run_jira_links : l.id # id.n}
      /\ UNCHANGED <<test_cases, test_case_steps, test_runs, test_run_steps, uploads,
                     serial, inflight, projects, test_case_folders, test_run_folders,
                     form, jira_links, runForm>>

POST_JIRA_CASE == "POST /jira/test-cases"

\* POST /service/jira/test-cases: a new test case and its first link.
PostJiraTestCase(name, projectId, jiraIssueKey) ==
  LET nameTrimmed == trim(name)
      pid == ToNumber(projectId)
      code == IF nameTrimmed = <<>> \/ Len(nameTrimmed) > NAME_MAX_LENGTH THEN 400
              ELSE IF MissingProjectId(projectId) \/ InvalidProjectId(pid) THEN 400
              ELSE IF MissingIssueKey(jiraIssueKey) THEN 400
              ELSE IF ~\E r \in projects : r.id = pid.n THEN 500
              ELSE 201
      tc == serial.test_cases + 1
      id == serial.jira_links + 1
  IN  /\ now < MaxLinkRequests
      /\ now' = now + 1
      /\ last' = [op |-> POST_JIRA_CASE, key |-> jiraIssueKey, code |-> code]
      /\ IF code = 201
           THEN /\ test_cases' = test_cases \cup
                     {[id |-> tc, name |-> nameTrimmed, project_id |-> pid.n,
                       folder_id |-> NULL]}
                /\ jira_links' = jira_links \cup
                     {JiraLinkRow(id, tc, IssueKey(jiraIssueKey.text))}
                /\ serial' = [serial EXCEPT !.test_cases = tc, !.jira_links = id]
           ELSE UNCHANGED <<test_cases, jira_links, serial>>
      /\ UNCHANGED <<test_case_steps, test_runs, test_run_steps, uploads, inflight,
                     projects, test_case_folders, test_run_folders, form,
                     test_run_jira_links, runForm>>

\* jiraIssueKey of the body
IssueKeyInputs ==
  {[typeof |-> "undefined"],
   [typeof |-> "string", text |-> <<"a", "-", "1">>],
   [typeof |-> "string", text |-> <<" ", "A", "-", "1", " ">>],
   [typeof |-> "string", text |-> <<"B", "-", "2">>],
   [typeof |-> "string", text |-> <<" ">>]}

\* testCaseId and testRunId of the body
EntityIdInputs(prefix) ==
  {[typeof |-> "undefined"]}
    \cup {[typeof |-> "string", text |-> v] :
            v \in {prefix \o <<"1">>, <<"2">>, <<"9">>, <<"x">>}}

NextJira ==
  \/ \E id \in EntityIdInputs(<<"T", "C", "-">>), key \in IssueKeyInputs :
       PostJiraLink(id, key)
  \/ \E id \in EntityIdInputs(<<"T", "R", "-">>), key \in IssueKeyInputs :
       PostJiraRunLink(id, key)
  \/ \E id \in {<<"1">>, <<"2">>, <<"x">>} : DeleteJiraLink(id)
  \/ \E id \in {<<"1">>, <<"2">>, <<"x">>} : DeleteJiraRunLink(id)
  \/ \E key \in IssueKeyInputs, project \in {Project1, [typeof |-> "number", n |-> 9]} :
       PostJiraTestCase(<<"N">>, project, key)
  \/ \E id \in {<<"1">>, <<"9">>} : now < MaxTime /\ DeleteTestCase(id)

SpecJira == InitFolders /\ [][NextJira]_vars

(***************************************************************************)
(* TestRunForm: the edit form of a run.  Every change of status or steps   *)
(* re-arms the auto-save timer; the timer and Cmd/Ctrl+S call doSave,      *)
(* which sends a PUT and does not wait for the saves sent before.  The     *)
(* server handles the requests in flight in any order and the responses    *)
(* arrive in any order.                                                    *)
(***************************************************************************)
\* How often the form is opened, changed and saved.
MaxOpens == 1

MaxChanges == 2

MaxSaves == 2

\* setTimeout(..., 800)
AUTO_SAVE_MS == 800

\* The lengths of time that pass between two events of the model.
Elapses == {AUTO_SAVE_MS \div 2}

Armed == [armed |-> TRUE, left |-> AUTO_SAVE_MS]

isLockedStatus(status) == status \in {"passed", "failed"}

\* GET /service/test-runs/:id: the steps of the response, with
\* stepStatus: s.stepStatus ?? 'not_run'
LoadedSteps(id) ==
  LET rows == SelectRunSteps(test_run_steps, id)
  IN  [k \in 1..Len(rows) |-> formatTestRunStep(rows[k])]

\* fetchRun on mount: a new instance of the form filled from the response.
\* The auto-save effect that follows the load only sets loadedRef.  Saves of
\* an earlier instance stay in flight; their responses no longer matter.
fetchRun(testRunId) ==
  LET id == parseInt(testRunId)
  IN  /\ ~runForm.mounted
      /\ runForm.opens < MaxOpens
      /\ ~id.isNaN
      /\ \E run \in test_runs :
           /\ run.id = id.n
           /\ runForm' = [RunFormClosed EXCEPT
                            !.mounted = TRUE, !.testRunId = testRunId,
                            !.status = run.status, !.steps = LoadedSteps(id.n),
                            !.loadedRef = TRUE, !.lastSavedStatusRef = run.status,
                            !.opens = runForm.opens + 1,
                            !.changes = runForm.changes, !.saves = runForm.saves,
                            !.flights = {[f EXCEPT !.orphan = TRUE] : f \in runForm.flights}]
      /\ UNCHANGED outsideRunForm

\* The cleanup of the auto-save effect on unmount clears the timer.
Unmount ==
  /\ runForm.mounted
  /\ runForm' = [runForm EXCEPT !.mounted = FALSE, !.autoSaveTimer = NoTimer]
  /\ UNCHANGED outsideRunForm

\* The auto-save effect after a change of status or steps.
Changed_throttled(f) ==
  [f EXCEPT !.autoSaveTimer = IF @.armed THEN @ ELSE Armed, !.changes = @ + 1]

Changed(f) == [f EXCEPT !.autoSaveTimer = Armed, !.changes = @ + 1]

\* onChange of the status select
setStatus(value) ==
  /\ runForm.mounted
  /\ runForm.changes < MaxChanges
  /\ value # runForm.status
  /\ runForm' = Changed([runForm EXCEPT !.status = value])
  /\ UNCHANGED outsideRunForm

\* The step inputs are disabled while the status shown is passed or failed.
Editable(index) ==
  /\ runForm.mounted
  /\ runForm.changes < MaxChanges
  /\ ~isLockedStatus(runForm.status)
  /\ index + 1 \in 1..Len(runForm.steps)

handleActualResultChange(index, value) ==
  /\ Editable(index)
  /\ runForm' = Changed([runForm EXCEPT !.steps[index + 1].actualResults = value])
  /\ UNCHANGED outsideRunForm

handleCheckboxChange(index, checked) ==
  /\ Editable(index)
  /\ runForm' = Changed([runForm EXCEPT !.steps[index + 1].checked = checked])
  /\ UNCHANGED outsideRunForm

handleActualAttachmentsChange(index, attachments) ==
  /\ Editable(index)
  /\ runForm' = Changed([runForm EXCEPT
                           !.steps[index + 1].actualResultAttachments = attachments])
  /\ UNCHANGED outsideRunForm

handleStepStatusChange(index, stepStatus) ==
  /\ Editable(index)
  /\ runForm' = Changed([runForm EXCEPT !.steps[index + 1].stepStatus = stepStatus])
  /\ UNCHANGED outsideRunForm

\* Time passes; an armed timer fires no later than it is due.
Tick(elapsed) ==
  /\ runForm.autoSaveTimer.armed
  /\ elapsed <= runForm.autoSaveTimer.left
  /\ runForm' = [runForm EXCEPT !.autoSaveTimer.left = @ - elapsed]
  /\ UNCHANGED outsideRunForm

\* The steps doSave puts in the body.
SaveSteps_always(wasLocked, currentSteps) ==
  StepsArray([k \in 1..Len(currentSteps) |->
                StepPatch(currentSteps[k].id, {currentSteps[k].actualResults},
                          {currentSteps[k].actualResultAttachments},
                          {currentSteps[k].checked}, {currentSteps[k].stepStatus})])

SaveSteps(wasLocked, currentSteps) ==
  IF wasLocked THEN NoSteps
  ELSE StepsArray([k \in 1..Len(currentSteps) |->
                     StepPatch(currentSteps[k].id, {currentSteps[k].actualResults},
                               {currentSteps[k].actualResultAttachments},
                               {currentSteps[k].checked}, {currentSteps[k].stepStatus})])

\* doSave up to its fetch: the request leaves with the status and, unless
\* the status saved last is locked, the steps.  by records what called it.
doSave(f, currentStatus, currentSteps, by) ==
  LET wasLocked == isLockedStatus(f.lastSavedStatusRef)
      body == Body(StatusString(currentStatus), SaveSteps(wasLocked, currentSteps))
  IN  [f EXCEPT !.saveState = "saving", !.saves = @ + 1,
                !.flights = @ \cup {[n |-> f.saves + 1, id |-> f.testRunId,
                                     currentStatus |-> currentStatus, body |-> body,
                                     phase |-> "request", code |-> 0,
                                     by |-> by, orphan |-> FALSE]}]

\* The timer fires: doSave(status, steps) with the values of the last render.
TimerFires ==
  /\ runForm.mounted
  /\ runForm.saves < MaxSaves
  /\ runForm.autoSaveTimer.armed
  /\ runForm.autoSaveTimer.left = 0
  /\ runForm' = doSave([runForm EXCEPT !.autoSaveTimer = NoTimer],
                       runForm.status, runForm.steps, "timer")
  /\ UNCHANGED outsideRunForm

\* Cmd/Ctrl+S: clearTimeout and doSave(status, steps) at once.
onKeyDown ==
  /\ runForm.mounted
  /\ runForm.saves < MaxSaves
  /\ runForm' = doSave([runForm EXCEPT !.autoSaveTimer = NoTimer],
                       runForm.status, runForm.steps, "key")
  /\ UNCHANGED outsideRunForm

\* The server handles one of the requests in flight.
HandleSave(f) ==
  /\ f \in runForm.flights
  /\ f.phase = "request"
  /\ LET res == PutTestRunResult(f.id, f.body, now + 1)
     IN  /\ test_runs' = res.runs
         /\ test_run_steps' = res.steps
         /\ last' = [op |-> "PUT /test-runs/:id", id |-> parseInt(f.id), body |-> f.body,
                     code |-> res.code, cur |-> res.cur, reopened |-> Reopened(last),
                     repeated |-> Repeated(last, f.id, f.body)]
         /\ runForm' = [runForm EXCEPT
                          !.flights = (@ \ {f}) \cup
                                        {[f EXCEPT !.phase = "response", !.code = res.code]}]
  /\ UNCHANGED <<test_cases, test_case_steps, uploads, serial, now, inflight, projects,
                 test_case_folders, test_run_folders, form, links>>

\* doSave after its fetch: a response that is ok records the status it sent
\* as the one saved last; any other ends in the catch.
Settled(f, g, ok) ==
  IF g.orphan THEN [f EXCEPT !.flights = @ \ {g}]
  ELSE IF ok
    THEN [f EXCEPT !.flights = @ \ {g}, !.lastSavedStatusRef = g.currentStatus,
                   !.saveState = "saved"]
    ELSE [f EXCEPT !.flights = @ \ {g}, !.saveState = "error"]

ReceiveResponse(g) ==
  /\ g \in runForm.flights
  /\ g.phase = "response"
  /\ runForm' = Settled(runForm, g, g.code = 200)
  /\ UNCHANGED outsideRunForm

\* The network fails: the request is lost before the server sees it, or
\* the response is lost after the server has handled the request.
NetworkFails(g) ==
  /\ g \in runForm.flights
  /\ runForm' = Settled(runForm, g, FALSE)
  /\ UNCHANGED outsideRunForm

\* What a tester does to the form of run 1.
FormEdits ==
  \/ \E value \in {"in_progress", "passed", "na"} : setStatus(value)
  \/ handleActualResultChange(0, "as expected")
  \/ \E index \in {0, 1} : handleCheckboxChange(index, TRUE)
  \/ handleActualAttachmentsChange(0, <<Attachment(7, "image/png")>>)
  \/ \E stepStatus \in {"passed", "failed"} : handleStepStatusChange(0, stepStatus)

FormSaves ==
  \/ \E elapsed \in Elapses : Tick(elapsed)
  \/ TimerFires
  \/ onKeyDown
  \/ \E f \in runForm.flights : HandleSave(f)
  \/ \E g \in runForm.flights : ReceiveResponse(g)

\* One tester, no other client, a network that loses nothing.
NextRunForm ==
  \/ fetchRun(<<"1">>)
  \/ Unmount
  \/ FormEdits
  \/ FormSaves

\* Run 1 as it was created, executed or passed, no step of it filled in yet.
InitRunForm == InitRunOfCase /\ \A r \in test_run_steps : ~r.checked

SpecRunForm == InitRunForm /\ [][NextRunForm]_vars

\* The same with a network that may fail.
NextRunFormOffline ==
  \/ NextRunForm
  \/ \E g \in runForm.flights : NetworkFails(g)

SpecRunFormOffline == InitRunForm /\ [][NextRunFormOffline]_vars

(***************************************************************************)
(* Vocabulary of the properties.                                           *)
(***************************************************************************)
PUT == "PUT /test-runs/:id"

\* The stored rows of one run.
StepsOf(steps, runId) == {r \in steps : r.test_run_id = runId}

\* The request handled last was a PUT addressed to an id that parsed.
PutOn(l) == l.op = PUT /\ ~l.id.isNaN

CarriesSteps(body) == body.steps.kind = "array" /\ Len(body.steps.arr) > 0

PatchFields == {"actualResults", "actualResultAttachments", "checked", "stepStatus"}

\* The patches of the list that name step sid and supply field f.
Supplying(arr, sid, f) ==
  {i \in 1..Len(arr) : arr[i].typeofId = "number" /\ arr[i].id = sid /\ arr[i][f] # {}}

Max(S) == CHOOSE x \in S : \A y \in S : y <= x

\* Every field the list supplies for row's step holds, as the API returns it,
\* the value supplied (by the last patch supplying it, when several do).
SuppliedHolds(arr, row) ==
  \A f \in PatchFields :
    LET at == Supplying(arr, row.id, f)
    IN  at # {} => formatTestRunStep(row)[f] = CHOOSE v \in arr[Max(at)][f] : TRUE

\* The patches of the list were applied to the stored steps of run runId.
PatchesApplied(arr, runId, steps) ==
  \A row \in StepsOf(steps, runId) : SuppliedHolds(arr, row)

(***************************************************************************)
(* C1.  A PUT carrying a non-empty steps list on a run whose stored status *)
(* is passed or failed is answered 409, with or without a status in the    *)
(* body, and the run's row (status, updatedAt) and all its step rows are   *)
(* the same before and after.                                              *)
(***************************************************************************)
C1_LockedRunRejectsSteps ==
  [][(/\ PutOn(last')
      /\ CarriesSteps(last'.body)
      /\ \E r \in SelectRun(test_runs, last'.id.n) : r.status \in LOCKED_STATUSES)
     => /\ last'.code = 409
        /\ SelectRun(test_runs', last'.id.n) = SelectRun(test_runs, last'.id.n)
        /\ StepsOf(test_run_steps', last'.id.n) = StepsOf(test_run_steps, last'.id.n)]_vars

C1_Witness ==
  /\ PutOn(last)
  /\ last.code = 409
  /\ last.body.status.typeof = "string"
  /\ CarriesSteps(last.body)
  /\ \E r \in SelectRun(test_runs, last.id.n) : r.status \in LOCKED_STATUSES

(***************************************************************************)
(* C3.  A PUT on a run whose stored status is not passed/failed, carrying  *)
(* status passed or failed and step patches, is accepted and applies both: *)
(* afterwards the stored status is the supplied one and every supplied     *)
(* field of every listed step of the run holds the supplied value.         *)
(***************************************************************************)
C3_LockingRequestCarriesSteps ==
  [][(/\ PutOn(last')
      /\ CarriesSteps(last'.body)
      /\ last'.body.status.typeof = "string"
      /\ last'.body.status.v \in LOCKED_STATUSES
      /\ \E r \in SelectRun(test_runs, last'.id.n) : r.status \notin LOCKED_STATUSES)
     => /\ last'.code = 200
        /\ \A r \in SelectRun(test_runs', last'.id.n) : r.status = last'.body.status.v
        /\ PatchesApplied(last'.body.steps.arr, last'.id.n, test_run_steps')]_vars

C3_Witness ==
  /\ PutOn(last)
  /\ last.code = 200
  /\ last.cur \notin LOCKED_STATUSES
  /\ last.body = Body(StatusString("passed"), StepsArray(<<PatchFilled(1)>>))
  /\ \E r \in test_runs : r.id = 1 /\ r.status = "passed"
  /\ \E row \in test_run_steps : row.id = 1 /\ row.checked /\ row.step_status = "failed"

(***************************************************************************)
(* C4.  After a status-only update took a run from passed or failed to     *)
(* ready_to_test, in_progress or na, the next PUT on it that carries step  *)
(* patches is not answered 409, and (its status, if any, being valid) its  *)
(* patches are applied.                                                    *)
(***************************************************************************)
C4_UnlockedRunTakesSteps ==
  (/\ PutOn(last)
   /\ last.reopened = last.id.n
   /\ CarriesSteps(last.body))
  => /\ last.code # 409
     /\ ~InvalidStatus(last.body.status)
          => /\ last.code = 200
             /\ PatchesApplied(last.body.steps.arr, last.id.n, test_run_steps)

C4_Witness ==
  /\ PutOn(last)
  /\ last.reopened = 1
  /\ last.code = 200
  /\ last.body = Body(NoStatus, StepsArray(<<PatchFilled(1)>>))
  /\ \E r \in test_runs : r.id = 1 /\ r.status = "ready_to_test"
  /\ \E row \in test_run_steps : row.id = 1 /\ row.actual_results = "failed here"

(***************************************************************************)
(* C10.  An accepted PUT sets the run's updatedAt to the current time,     *)
(* whatever the body carries; no request changes a createdAt; a PUT        *)
(* answered 400, 404 or 409 leaves every updatedAt as it was.              *)
(***************************************************************************)
C10_UpdatedAtRefreshed ==
  [][last'.op = PUT
     => /\ last'.code = 200
             => \A r \in SelectRun(test_runs', last'.id.n) : r.updated_at = now'
        /\ \A r \in test_runs : \E r2 \in test_runs' :
             /\ r2.id = r.id
             /\ r2.created_at = r.created_at
             /\ last'.code \in {400, 404, 409} => r2.updated_at = r.updated_at]_vars

C10_Witness ==
  /\ PutOn(last)
  /\ last.code = 200
  /\ last.body = Body(NoStatus, NoSteps)
  /\ \E r \in SelectRun(test_runs, last.id.n) : r.updated_at = now /\ r.created_at < now

(***************************************************************************)
(* C8.  When an accepted PUT goes through its step patches, each of        *)
(* actualResults, actualResultAttachments, checked and stepStatus of a     *)
(* step of the run takes the supplied value where a patch supplies it (the *)
(* falsy '', [] and false included) and keeps the stored column where none *)
(* does; a step no patch names keeps its whole row.                        *)
(***************************************************************************)
StoredField(row, f) ==
  CASE f = "actualResults" -> row.actual_results
    [] f = "actualResultAttachments" -> row.actual_result_attachments
    [] f = "checked" -> row.checked
    [] f = "stepStatus" -> row.step_status

Named(arr, sid) == \E i \in 1..Len(arr) : arr[i].typeofId = "number" /\ arr[i].id = sid

C8_PatchMergesPerField ==
  [][(/\ PutOn(last') /\ last'.code = 200
      /\ last'.cur \notin LOCKED_STATUSES
      /\ last'.body.steps.kind = "array")
     => \A row \in StepsOf(test_run_steps, last'.id.n) :
          \E row2 \in StepsOf(test_run_steps', last'.id.n) :
            /\ row2.id = row.id
            /\ SuppliedHolds(last'.body.steps.arr, row2)
            /\ \A f \in PatchFields :
                 Supplying(last'.body.steps.arr, row.id, f) = {}
                   => StoredField(row2, f) = StoredField(row, f)
            /\ ~Named(last'.body.steps.arr, row.id) => row2 = row]_vars

C8_Witness ==
  /\ PutOn(last)
  /\ last.code = 200
  /\ last.body.steps = StepsArray(<<StepPatch(1, {}, {<<>>}, {}, {})>>)
  /\ now = 1
  /\ \E row \in test_run_steps :
       /\ row.id = 1
       /\ row.actual_result_attachments = JSONstringify(<<>>)
       /\ row.actual_results = "as expected" /\ row.checked
       /\ row.step_status = "passed"
  /\ TestRunStepRow(2, 1, CaseStep(2), <<>>) \in test_run_steps

(***************************************************************************)
(* C9.  A patch whose id is not the id of a step of the addressed run      *)
(* (the step of another run, no step, not a number) causes no error and    *)
(* changes no step of any run, while the other patches of the request are  *)
(* applied; no accepted PUT changes a step of another run.                 *)
(***************************************************************************)
Foreign(arr, runId, steps) ==
  \E i \in 1..Len(arr) :
    \/ arr[i].typeofId # "number"
    \/ \A row \in StepsOf(steps, runId) : row.id # arr[i].id

C9_ForeignPatchIgnored ==
  [][PutOn(last')
     => /\ \A row \in test_run_steps :
             row.test_run_id # last'.id.n => row \in test_run_steps'
        /\ (/\ last'.body.steps.kind = "array"
            /\ Foreign(last'.body.steps.arr, last'.id.n, test_run_steps)
            /\ ~InvalidStatus(last'.body.status)
            /\ \E r \in SelectRun(test_runs, last'.id.n) : r.status \notin LOCKED_STATUSES)
           => /\ last'.code = 200
              /\ PatchesApplied(last'.body.steps.arr, last'.id.n, test_run_steps')
              /\ \A row \in StepsOf(test_run_steps, last'.id.n) :
                   ~Named(last'.body.steps.arr, row.id) => row \in test_run_steps']_vars

C9_Witness ==
  /\ PutOn(last)
  /\ last.code = 200
  /\ last.id.n = 1
  /\ last.body.steps = StepsArray(<<PatchFilled(3), PatchChecked(1)>>)
  /\ TestRunStepRow(3, 2, CaseStep(3), <<>>) \in test_run_steps
  /\ \E row \in test_run_steps : row.id = 1 /\ row.checked

(***************************************************************************)
(* Creation of a run.                                                      *)
(***************************************************************************)
\* The ids under which the attachments of a set of step rows are stored.
AttachmentIds(rows) ==
  UNION {{parseAttachments(r.attachments)[i].id :
            i \in DOMAIN parseAttachments(r.attachments)} : r \in rows} \ {0}

\* The entries (row, index, attachment) of a set of step rows.
Entries(rows) ==
  UNION {{[row |-> r.id, i |-> i, att |-> parseAttachments(r.attachments)[i]] :
            i \in DOMAIN parseAttachments(r.attachments)} : r \in rows}

\* C5: a POST /test-runs answered 201 for a case with N steps stores one new
\* run whose status is ready_to_test and exactly N steps of it which, read
\* in order of position, carry the position, description and expected
\* results of the case's steps in their order, with checked false, step
\* status not_run, empty actual results and no actual-result attachments.
C5_RunSnapshotsCaseSteps ==
  [][(last'.op = POST /\ last'.code = 201) =>
       LET source == SelectCaseSteps(test_case_steps, tcNumId(last'.testCaseId).n)
           created == SelectRunSteps(test_run_steps', last'.run)
       IN  /\ SelectRun(test_runs, last'.run) = {}
           /\ \E r \in test_runs' :
                /\ SelectRun(test_runs', last'.run) = {r}
                /\ r.status = "ready_to_test"
                /\ test_runs' = test_runs \cup {r}
           /\ Len(created) = Len(source)
           /\ \A k \in 1..Len(source) :
                LET step == formatTestRunStep(created[k])
                IN  /\ step.position = source[k].position
                    /\ step.stepDescription = source[k].step_description
                    /\ step.expectedResults = source[k].expected_results
                    /\ step.checked = FALSE
                    /\ step.stepStatus = "not_run"
                    /\ step.actualResults = ""
                    /\ step.actualResultAttachments = <<>>
    ]_vars

\* A run was created from case 1 and holds its two steps.
C5_Witness ==
  /\ last.op = POST
  /\ last.code = 201
  /\ ~last.thrown
  /\ Len(SelectRunSteps(test_run_steps, last.run)) = 2
  /\ Len(SelectCaseSteps(test_case_steps, 1)) = 2

\* C6: every attachment a POST /test-runs stores with the steps of the new
\* run has an id that no stored file and no case attachment had and that no
\* other run attachment has, and its file is stored under that id; and a
\* DELETE /attachments/:id of an id of a case attachment removes the file of
\* no run attachment.
C6_RunAttachmentsAreOwnCopies ==
  [][/\ last'.op = POST =>
          \A e \in Entries(StepsOf(test_run_steps', last'.run)) :
             /\ e.att.id \notin AttachmentIds(test_case_steps)
             /\ e.att.id \notin {f.id : f \in uploads}
             /\ File(e.att.id, e.att.mimeType) \in uploads'
             /\ \A o \in Entries(test_run_steps') :
                  o.att.id = e.att.id => o.row = e.row /\ o.i = e.i
     /\ (last'.op = DELETE_ATTACHMENT /\ last'.id \in AttachmentIds(test_case_steps)) =>
          \A e \in Entries(test_run_steps) :
             File(e.att.id, e.att.mimeType) \in uploads =>
               File(e.att.id, e.att.mimeType) \in uploads'
    ]_vars

\* The file of a case attachment was deleted after a run had copied it; the
\* run's step still has its two attachments and both files.
C6_Witness ==
  /\ last.op = DELETE_ATTACHMENT
  /\ last.code = 204
  /\ last.id \in AttachmentIds(test_case_steps)
  /\ \E r \in test_run_steps :
       /\ Len(parseAttachments(r.attachments)) = 2
       /\ \A i \in 1..2 :
            LET att == parseAttachments(r.attachments)[i]
            IN  /\ File(att.id, att.mimeType) \in uploads
                /\ att.id # last.id

\* C7: when a statement or a file copy of a POST /test-runs fails, the
\* request is answered with an error and neither the run nor any step of it
\* is stored; and no stored run has fewer steps than its case.
C7_FailedCreationLeavesNothing ==
  /\ (last.op = POST /\ last.thrown) =>
       /\ last.code >= 400
       /\ SelectRun(test_runs, last.run) = {}
       /\ StepsOf(test_run_steps, last.run) = {}
  /\ \A r \in test_runs :
       Cardinality(StepsOf(test_run_steps, r.id)) >=
         Len(SelectCaseSteps(test_case_steps, r.source_test_case_id))

(***************************************************************************)
(* Two requests at once.                                                   *)
(***************************************************************************)
\* The request of client c executes an UPDATE of a step row of its run.
WritesStep(c) ==
  /\ inflight[c].pc = "UPDATE test_run_steps"
  /\ inflight'[c].pc = "UPDATE test_run_steps"
  /\ inflight'[c].i = inflight[c].i + 1
  /\ LET list == WritableSteps(inflight[c].cur, inflight[c].body)
         patch == list[inflight[c].i]
     IN  /\ patch.typeofId = "number"
         /\ \E r \in StepsOf(test_run_steps, inflight[c].id.n) : r.id = patch.id

\* C2: whenever a request updates a step row of a run, the status stored for
\* the run at that moment is not passed or failed, unless it is the status
\* this same request has just stored.
C2_NoStepWriteWhileLocked ==
  [][\A c \in Clients :
       WritesStep(c) =>
         \A r \in SelectRun(test_runs, inflight[c].id.n) :
            r.status \in LOCKED_STATUSES =>
              /\ inflight[c].body.status.typeof = "string"
              /\ inflight[c].body.status.v = r.status
    ]_vars

(***************************************************************************)
(* The status of a run.                                                    *)
(***************************************************************************)
\* The five statuses of a run.
Statuses == {"ready_to_test", "in_progress", "passed", "failed", "na"}

\* The body carries one of the five statuses and no steps.
StatusOnly(body) ==
  /\ body.steps.kind = "undefined"
  /\ body.status.typeof = "string"
  /\ body.status.v \in Statuses

\* The stored status of run id.
StatusOf(runs, id) == {r.status : r \in SelectRun(runs, id)}

\* C11: a PUT /test-runs/:id with only {status: s}, s one of the five
\* statuses, on a stored run is answered 200 and changes no step; and when
\* it repeats the accepted request before it, it is answered 200 again and
\* the status and the steps stored after it are those stored before it.
C11_StatusOnlyUpdateRepeats ==
  [][(PutOn(last') /\ StatusOnly(last'.body)
        /\ SelectRun(test_runs, last'.id.n) # {}) =>
       /\ last'.code = 200
       /\ test_run_steps' = test_run_steps
       /\ last'.repeated =>
            /\ StatusOf(test_runs', last'.id.n) = StatusOf(test_runs, last'.id.n)
            /\ StatusOf(test_runs', last'.id.n) = {last'.body.status.v}
    ]_vars

\* The same {status: passed} came twice to a run that was not locked before;
\* its edited step is as it was.
C11_Witness ==
  /\ PutOn(last)
  /\ last.repeated
  /\ last.code = 200
  /\ StatusOnly(last.body)
  /\ last.body.status.v = "passed"
  /\ last.id.n = 1
  /\ \E r \in StepsOf(test_run_steps, 1) : r.checked /\ r.actual_results # ""
  /\ \E r \in test_runs : r.id = 1 /\ r.status = "passed" /\ r.updated_at = 2

\* C12: a PUT /test-runs/:id with only {status: t}, t any of the five
\* statuses, on a run stored with any status s is answered 200 and leaves
\* the stored status equal to t.
C12_AnyStatusToAnyStatus ==
  [][(PutOn(last') /\ StatusOnly(last'.body)) =>
       \A r \in SelectRun(test_runs, last'.id.n) :
          /\ r.status \in Statuses
          /\ last'.cur = r.status
          /\ last'.code = 200
          /\ StatusOf(test_runs', r.id) = {last'.body.status.v}
    ]_vars

\* A failed run went back to ready_to_test and then on to na.
C12_Witness ==
  /\ PutOn(last)
  /\ StatusOnly(last.body)
  /\ last.reopened = last.id.n
  /\ last.cur = "ready_to_test"
  /\ last.code = 200
  /\ StatusOf(test_runs, last.id.n) = {"na"}

\* The body carries a status that is none of the five: another string or a
\* value that is no string.
UnknownStatus(body) ==
  /\ body.status.typeof # "undefined"
  /\ ~(body.status.typeof = "string" /\ body.status.v \in Statuses)

\* C13 as stated: every stored status is one of the five, and a PUT
\* /test-runs/:id on a stored run whose status is none of them is answered
\* 400 and changes no run and no step.
C13_UnknownStatusIs400 ==
  [][/\ \A r \in test_runs' : r.status \in Statuses
     /\ (PutOn(last') /\ UnknownStatus(last'.body)
           /\ SelectRun(test_runs, last'.id.n) # {}) =>
          /\ last'.code = 400
          /\ test_runs' = test_runs
          /\ test_run_steps' = test_run_steps
    ]_vars

\* C13 amended: every stored status is one of the five, and a PUT
\* /test-runs/:id on a stored run whose status is none of them changes no run
\* and no step and is answered 400, or 409 when the run is passed or failed
\* and the body carries a non-empty steps list.
C13_UnknownStatusRejected ==
  [][/\ \A r \in test_runs' : r.status \in Statuses
     /\ (PutOn(last') /\ UnknownStatus(last'.body)
           /\ SelectRun(test_runs, last'.id.n) # {}) =>
          /\ last'.code =
               IF StatusOf(test_runs, last'.id.n) \subseteq LOCKED_STATUSES
                  /\ CarriesSteps(last'.body)
                 THEN 409 ELSE 400
          /\ test_runs' = test_runs
          /\ test_run_steps' = test_run_steps
    ]_vars

\* An unknown status came with a patch of a step of an unlocked run and was
\* answered 400.
C13_Witness ==
  /\ PutOn(last)
  /\ UnknownStatus(last.body)
  /\ last.body.status.typeof = "string"
  /\ CarriesSteps(last.body)
  /\ last.cur \in Statuses \ LOCKED_STATUSES
  /\ last.code = 400

(***************************************************************************)
(* Runs and the test cases they came from.                                 *)
(***************************************************************************)
\* What a run step took from its source step, as the API shows it.
Snapshot(rows) ==
  {[id |-> r.id, test_run_id |-> r.test_run_id, position |-> r.position,
    stepDescription |-> r.step_description, expectedResults |-> r.expected_results,
    attachments |-> parseAttachments(r.attachments)] : r \in rows}

\* C14: an update of a run, and a rename, step replacement or deletion of a
\* test case, leaves every stored run stored and leaves the number of its
\* steps and the position, description, expected results and attachments of
\* each of them as they were; creating another run does the same.
C14_RunStepsKeepTheirSnapshot ==
  [][(last'.op \in {PUT, PUT_CASE, DELETE_CASE, POST}) =>
       /\ \A r \in test_runs : SelectRun(test_runs', r.id) # {}
       /\ Snapshot({r \in test_run_steps' : SelectRun(test_runs, r.test_run_id) # {}})
            = Snapshot(test_run_steps)
    ]_vars

\* The source test case of run 1 is deleted, its steps with it; run 1 still
\* has its two steps with their texts and copied attachments.
C14_Witness ==
  /\ last.op = DELETE_CASE
  /\ last.code = 204
  /\ last.id.n = 1
  /\ SelectCaseSteps(test_case_steps, 1) = <<>>
  /\ LET steps == SelectRunSteps(test_run_steps, 1)
     IN  /\ Len(steps) = 2
         /\ steps[1].step_description = "enter creds"
         /\ Len(parseAttachments(steps[1].attachments)) = 2
         /\ steps[2].expected_results = "login shown"

C16_CaseWithRunsIsKept ==
  [][(last'.op = DELETE_CASE /\ ~last'.id.isNaN
        /\ \E r \in test_runs : r.source_test_case_id = last'.id.n) =>
       /\ last'.code >= 400
       /\ test_cases' = test_cases
       /\ test_case_steps' = test_case_steps
       /\ test_runs' = test_runs
    ]_vars

\* C17: a DELETE /projects/:id of a project that owns a test case is answered
\* 409, and the projects, the test cases and the runs are as before.
C17_ProjectWithCasesIsKept ==
  [][(last'.op = DELETE_PROJECT /\ ~last'.id.isNaN
        /\ (\E pr \in projects : pr.id = last'.id.n)
        /\ \E tc \in test_cases : tc.project_id = last'.id.n) =>
       /\ last'.code = 409
       /\ projects' = projects
       /\ test_cases' = test_cases
       /\ test_case_steps' = test_case_steps
       /\ test_runs' = test_runs
       /\ test_run_steps' = test_run_steps
    ]_vars

\* Project 2 owned nothing until a test case was moved into it; its deletion
\* is then answered 409.
C17_Witness ==
  /\ last.op = DELETE_PROJECT
  /\ last.code = 409
  /\ last.id.n = 2
  /\ \E pr \in projects : pr.id = 2
  /\ \E tc \in test_cases : tc.project_id = 2

\* C18: after a PUT /test-cases/:id answered 200 whose steps is an array L,
\* the steps stored for the test case, in order of position, are as many as
\* L has elements, the k-th with position k and the description, expected
\* results and attachments of the k-th element (empty where it leaves them
\* out); no row stored for the case before is among them; and the steps of
\* the other test cases and of the runs are unchanged.
C18_StepsAreReplaced ==
  [][(last'.op = PUT_CASE /\ last'.code = 200 /\ last'.steps.kind = "array") =>
       LET L == last'.steps.arr
           id == last'.id.n
           stored == SelectCaseSteps(test_case_steps', id)
       IN  /\ Len(stored) = Len(L)
           /\ \A k \in 1..Len(L) :
                /\ stored[k].position = k
                /\ stored[k].step_description =
                     (IF L[k].stepDescription = {} THEN ""
                      ELSE CHOOSE v \in L[k].stepDescription : TRUE)
                /\ stored[k].expected_results =
                     (IF L[k].expectedResults = {} THEN ""
                      ELSE CHOOSE v \in L[k].expectedResults : TRUE)
                /\ parseAttachments(stored[k].attachments) =
                     (IF L[k].attachments.isArray THEN L[k].attachments.arr ELSE <<>>)
                /\ \A old \in test_case_steps : old.id # stored[k].id
           /\ {r \in test_case_steps' : r.test_case_id # id}
                = {r \in test_case_steps : r.test_case_id # id}
           /\ test_run_steps' = test_run_steps
    ]_vars

\* The one step of test case 2 was replaced by three.
C18_Witness ==
  /\ last.op = PUT_CASE
  /\ last.code = 200
  /\ last.id.n = 2
  /\ last.steps.kind = "array"
  /\ Len(last.steps.arr) = 3
  /\ Len(SelectCaseSteps(test_case_steps, 2)) = 3
  /\ Len(SelectCaseSteps(test_case_steps, 1)) = 2

\* The positions of a set of step rows are 1..n, n the number of rows.
Contiguous(rows) ==
  /\ {r.position : r \in rows} = 1..Cardinality(rows)
  /\ \A r, q \in rows : r.position = q.position => r = q

\* C19: the positions of the steps stored for each test case and for each
\* run are 1..n, each once; and each step of the edit form has the position
\* index + 1.
C19_PositionsAreContiguous ==
  /\ \A tc \in test_cases :
       Contiguous({r \in test_case_steps : r.test_case_id = tc.id})
  /\ \A run \in test_runs : Contiguous(StepsOf(test_run_steps, run.id))
  /\ \A k \in 1..Len(form.steps) : form.steps[k].position = (k - 1) + 1

\* In the form of test case 1 a step was added, the second step moved to the
\* top, and the three steps saved; a run created afterwards has them in the
\* saved order.
C19_Witness ==
  /\ Len(form.steps) = 3
  /\ form.steps[1].stepDescription = "log out"
  /\ form.steps[1].id # NULL
  /\ \E run \in test_runs :
       LET steps == SelectRunSteps(test_run_steps, run.id)
       IN  /\ Len(steps) = 3
           /\ steps[1].step_description = "log out"
           /\ steps[2].step_description = "enter creds"

(***************************************************************************)
(* Folders.                                                                *)
(***************************************************************************)
\* C20: a DELETE of a test-case folder answered 204 removes that folder and
\* no other, sets to NULL the folder of the test cases that were in it and
\* changes nothing else of any test case, step, run or run folder; a DELETE
\* of a run folder does the same for the runs.
C20_FolderDeletionFreesItsItems ==
  [][/\ (last'.op = DELETE_CASE_FOLDER /\ last'.code = 204) =>
          /\ test_case_folders' = {f \in test_case_folders : f.id # last'.id.n}
          /\ test_cases' =
               {IF r.folder_id = last'.id.n THEN [r EXCEPT !.folder_id = NULL] ELSE r :
                  r \in test_cases}
          /\ {r.id : r \in test_cases'} = {r.id : r \in test_cases}
          /\ UNCHANGED <<test_case_steps, test_runs, test_run_steps, test_run_folders>>
     /\ (last'.op = DELETE_RUN_FOLDER /\ last'.code = 204) =>
          /\ test_run_folders' = {f \in test_run_folders : f.id # last'.id.n}
          /\ test_runs' =
               {IF r.folder_id = last'.id.n THEN [r EXCEPT !.folder_id = NULL] ELSE r :
                  r \in test_runs}
          /\ {r.id : r \in test_runs'} = {r.id : r \in test_runs}
          /\ UNCHANGED <<test_cases, test_case_steps, test_run_steps, test_case_folders>>
    ]_vars

\* Folder 1 of the test cases was deleted: test case 1, which was in it, is
\* in no folder, and test case 2, moved to folder 2 before, is still there.
C20_Witness ==
  /\ last.op = DELETE_CASE_FOLDER
  /\ last.code = 204
  /\ last.id.n = 1
  /\ \E r \in test_cases : r.id = 1 /\ r.folder_id = NULL
  /\ \E r \in test_cases : r.id = 2 /\ r.folder_id = 2
  /\ \E f \in test_case_folders : f.id = 2

(***************************************************************************)
(* PUT /service/test-cases/:id and POST /service/test-runs handled         *)
(* statement by statement.  Each awaited query() is a statement of its own *)
(* on a pooled connection; neither handler opens a transaction, so the     *)
(* statements of two requests interleave freely.                           *)
(***************************************************************************)
\* PUT /test-cases/:id arrives: the checks made before the first statement.
ReceiveCase(c, idParam, name, projectId, steps) ==
  LET id == parseTestCaseId(idParam)
      pid == ToNumber(projectId)
      refused == \/ id.isNaN
                 \/ trim(name) = <<>>
                 \/ Len(trim(name)) > NAME_MAX_LENGTH
                 \/ MissingProjectId(projectId)
                 \/ InvalidProjectId(pid)
  IN  /\ inflight[c].pc = "idle"
      /\ inflight' = [inflight EXCEPT ![c] =
           [pc |-> IF refused THEN "done" ELSE "UPDATE test_cases",
            op |-> PUT_CASE, id |-> id, name |-> trim(name), pid |-> pid,
            steps |-> steps, i |-> 0, code |-> IF refused THEN 400 ELSE 0]]
      /\ UNCHANGED <<library, test_cases, test_case_steps, test_runs, test_run_steps,
                     uploads, serial, now, last>>

\* UPDATE test_cases SET name = $1, project_id = $2 WHERE id = $3 RETURNING ...
\* and the branch on Array.isArray(steps) that follows it.
UpdateCaseStatement(c) ==
  LET q == inflight[c]
  IN  /\ q.pc = "UPDATE test_cases"
      /\ IF {r \in test_cases : r.id = q.id.n} = {}
           THEN /\ inflight' = [inflight EXCEPT ![c] = [q EXCEPT !.pc = "done", !.code = 404]]
                /\ UNCHANGED test_cases
         ELSE IF {r \in projects : r.id = q.pid.n} = {}
           THEN /\ inflight' = [inflight EXCEPT ![c] = [q EXCEPT !.pc = "done", !.code = 500]]
                /\ UNCHANGED test_cases
         ELSE /\ test_cases' = UpdateCase(test_cases, q.name, q.pid.n, q.id.n)
              /\ inflight' = [inflight EXCEPT ![c] =
                   [q EXCEPT !.pc = IF q.steps.kind = "array"
                                      THEN "DELETE test_case_steps"
                                      ELSE "SELECT test_case_steps"]]
      /\ UNCHANGED <<library, test_case_steps, test_runs, test_run_steps, uploads, serial,
                     now, last>>

\* The statement a request executes after the DELETE or after the INSERT of
\* the step at index i - 1: the next INSERT, or the SELECT after the loop.
AfterStep(stepList, i) ==
  IF i < Len(stepList) THEN "INSERT test_case_steps" ELSE "SELECT test_case_steps"

\* DELETE FROM test_case_steps WHERE test_case_id = $1
DeleteStepsStatement(c) ==
  LET q == inflight[c]
  IN  /\ q.pc = "DELETE test_case_steps"
      /\ test_case_steps' = DeleteCaseSteps(test_case_steps, q.id.n)
      /\ inflight' = [inflight EXCEPT ![c] = [q EXCEPT !.pc = AfterStep(q.steps.arr, 0)]]
      /\ UNCHANGED <<library, test_cases, test_runs, test_run_steps, uploads, serial,
                     now, last>>

\* One turn of the loop: INSERT INTO test_case_steps of stepList[i].
InsertStepStatement(c) ==
  LET q == inflight[c]
  IN  /\ q.pc = "INSERT test_case_steps"
      /\ test_case_steps' =
           InsertCaseSteps(test_case_steps, q.id.n, SubSeq(q.steps.arr, 1, q.i + 1), q.i,
                           serial.test_case_steps)
      /\ serial' = [serial EXCEPT !.test_case_steps = @ + 1]
      /\ inflight' = [inflight EXCEPT ![c] =
           [q EXCEPT !.i = q.i + 1, !.pc = AfterStep(q.steps.arr, q.i + 1)]]
      /\ UNCHANGED <<library, test_cases, test_runs, test_run_steps, uploads, now, last>>

\* SELECT ... FROM test_case_steps WHERE test_case_id = $1 ORDER BY position
\* ASC, and the response made of it.
SelectStepsStatement(c) ==
  LET q == inflight[c]
  IN  /\ q.pc = "SELECT test_case_steps"
      /\ inflight' = [inflight EXCEPT ![c] = [q EXCEPT !.pc = "done", !.code = 200]]
      /\ UNCHANGED <<library, test_cases, test_case_steps, test_runs, test_run_steps,
                     uploads, serial, now, last>>

\* POST /test-runs arrives: the checks made before the first statement.
ReceiveRun(c, name, testCaseId) ==
  LET refused == \/ trim(name) = <<>>
                 \/ Len(trim(name)) > NAME_MAX_LENGTH
                 \/ MissingTestCaseId(testCaseId)
                 \/ InvalidTestCaseId(testCaseId)
  IN  /\ inflight[c].pc = "idle"
      /\ inflight' = [inflight EXCEPT ![c] =
           [pc |-> IF refused THEN "done" ELSE "SELECT test_cases",
            op |-> POST, id |-> tcNumId(testCaseId), name |-> trim(name),
            tc |-> {}, run |-> 0, source |-> <<>>,
            code |-> IF refused THEN 400 ELSE 0]]
      /\ UNCHANGED <<library, test_cases, test_case_steps, test_runs, test_run_steps,
                     uploads, serial, now, last>>

\* SELECT id, name, project_id FROM test_cases WHERE id = $1
SelectCaseStatement(c) ==
  LET q == inflight[c]
      tcResult == {tc \in test_cases : tc.id = q.id.n}
  IN  /\ q.pc = "SELECT test_cases"
      /\ inflight' = [inflight EXCEPT ![c] =
           IF tcResult = {} THEN [q EXCEPT !.pc = "done", !.code = 404]
           ELSE [q EXCEPT !.pc = "INSERT test_runs", !.tc = tcResult]]
      /\ UNCHANGED <<library, test_cases, test_case_steps, test_runs, test_run_steps,
                     uploads, serial, now, last>>

\* INSERT INTO test_runs (...) VALUES ($1, 'ready_to_test', $2, $3, $4)
InsertRunStatement(c) ==
  LET q == inflight[c]
      tc == CHOOSE r \in q.tc : TRUE
      runId == serial.test_runs + 1
  IN  /\ q.pc = "INSERT test_runs"
      /\ now < MaxTime
      /\ serial.test_runs < MaxRuns
      /\ test_runs' = test_runs \cup {TestRunRow(runId, q.name, tc, now + 1)}
      /\ serial' = [serial EXCEPT !.test_runs = runId]
      /\ now' = now + 1
      /\ inflight' = [inflight EXCEPT ![c] =
           [q EXCEPT !.pc = "SELECT source steps", !.run = runId]]
      /\ UNCHANGED <<library, test_cases, test_case_steps, test_run_steps, uploads, last>>

\* SELECT ... FROM test_case_steps WHERE test_case_id = $1 ORDER BY position
\* ASC: stepsResult.rows, the list the loop then walks.
SelectSourceStatement(c) ==
  LET q == inflight[c]
      tc == CHOOSE r \in q.tc : TRUE
  IN  /\ q.pc = "SELECT source steps"
      /\ inflight' = [inflight EXCEPT ![c] =
           [q EXCEPT !.pc = "INSERT test_run_steps",
                     !.source = SelectCaseSteps(test_case_steps, tc.id)]]
      /\ UNCHANGED <<library, test_cases, test_case_steps, test_runs, test_run_steps,
                     uploads, serial, now, last>>

\* The loop over stepsResult.rows: the files copied and the run steps
\* inserted, which no statement of another request reads or writes.
CopyStatements(c) ==
  LET q == inflight[c]
      db == CopySteps(q.source, 1, q.run, NoFault,
              [steps |-> test_run_steps, files |-> uploads, uuid |-> serial.uuid,
               step_id |-> serial.test_run_steps, thrown |-> FALSE, code |-> 201])
  IN  /\ q.pc = "INSERT test_run_steps"
      /\ test_run_steps' = db.steps
      /\ uploads' = db.files
      /\ serial' = [serial EXCEPT !.test_run_steps = db.step_id, !.uuid = db.uuid]
      /\ inflight' = [inflight EXCEPT ![c] = [q EXCEPT !.pc = "done", !.code = db.code]]
      /\ UNCHANGED <<library, test_cases, test_case_steps, test_runs, now, last>>

\* The step lists two sessions save for test case 1.
ListA == <<StepB, StepC>>

ListB == <<StepA>>

ConcurrentLists == {NoSteps, StepsArray(ListA), StepsArray(ListB)}

NextCaseConc ==
  \E c \in Clients :
    \/ \E id \in {<<"T", "C", "-", "1">>, <<"9">>, <<"x">>}, st \in ConcurrentLists :
         ReceiveCase(c, id, NewName, Project1, st)
    \/ UpdateCaseStatement(c)
    \/ DeleteStepsStatement(c)
    \/ InsertStepStatement(c)
    \/ SelectStepsStatement(c)
    \/ \E tc \in {Case1, [typeof |-> "number", n |-> 9], [typeof |-> "string", text |-> <<>>]} :
         ReceiveRun(c, <<"R">>, tc)
    \/ SelectCaseStatement(c)
    \/ InsertRunStatement(c)
    \/ SelectSourceStatement(c)
    \/ CopyStatements(c)

SpecCaseConc == InitCases /\ [][NextCaseConc]_vars

(***************************************************************************)
(* Attachments in TestCaseForm.  StepAttachmentsUpload uploads a file with *)
(* POST /service/attachments and adds it to the step in the form; removing *)
(* an attachment takes it out of the form and sends DELETE                 *)
(* /service/attachments/:id without waiting for a save.                    *)
(***************************************************************************)
MAX_ATTACHMENTS == 10

\* The files the sessions upload.
MaxUploads == 1

\* The form shows a test case it has loaded.
FormOpen == form.testCaseId # <<>>

\* prev.map((step, i) => (i === index ? { ...step, attachments } : step))
handleAttachmentsChange(steps, index, attachments) ==
  [k \in 1..Len(steps) |->
     IF k - 1 = index THEN [steps[k] EXCEPT !.attachments = attachments] ELSE steps[k]]

\* attachments.filter((a) => a.id !== id)
Filtered(attachments, id) ==
  LET kept(a) == a.id # id IN SelectSeq(attachments, kept)

POST_ATTACHMENT == "POST /attachments"

\* processFiles with one accepted file: multer stores it under a new UUID
\* with the extension of its type, the form adds it to the step.
processFiles(index, mimeType) ==
  LET attachments == form.steps[index + 1].attachments
      remaining == MAX_ATTACHMENTS - Len(attachments)
      newId == serial.uuid + 1
  IN  /\ FormOpen
      /\ now < MaxTime
      /\ serial.uuid < 3 + MaxUploads
      /\ remaining > 0
      /\ uploads' = uploads \cup {File(newId, mimeType)}
      /\ serial' = [serial EXCEPT !.uuid = newId]
      /\ form' = [form EXCEPT !.steps =
           handleAttachmentsChange(@, index, Append(attachments, Attachment(newId, mimeType)))]
      /\ last' = [op |-> POST_ATTACHMENT, id |-> newId, code |-> 201, reopened |-> 0]
      /\ now' = now + 1
      /\ UNCHANGED <<test_cases, test_case_steps, test_runs, test_run_steps, inflight,
                     projects, test_case_folders, test_run_folders, links, runForm>>

\* removeAttachment: onChange with the attachment filtered out, and the
\* DELETE of its file.
removeAttachment(index, id) ==
  /\ FormOpen
  /\ form' = [form EXCEPT !.steps =
       handleAttachmentsChange(@, index, Filtered(form.steps[index + 1].attachments, id))]
  /\ DeleteAttachmentHandled(id)

\* navigate('/'): the form is left, what it held is dropped.
LeaveForm ==
  /\ FormOpen
  /\ form' = FormClosed
  /\ UNCHANGED server

\* The attachments the form shows for the step at index.
Shown(index) == {form.steps[index + 1].attachments[j].id :
                   j \in 1..Len(form.steps[index + 1].attachments)}

NextAttachments ==
  \/ \E id \in {<<"T", "C", "-", "1">>, <<"2">>} : fetchTestCase(id)
  \/ \E index \in 0..(Len(form.steps) - 1) :
       \/ \E mimeType \in {"image/png", "image/jpeg"} : processFiles(index, mimeType)
       \/ \E id \in Shown(index) : removeAttachment(index, id)
  \/ handleSave
  \/ LeaveForm
  \/ \E id \in 1..(serial.uuid + 1) : DeleteAttachment(id)
  \/ PostTestRun(<<"R">>, Case1, NoFault)

SpecAttachments == InitCases /\ [][NextAttachments]_vars

(***************************************************************************)
(* Links to Jira issues.                                                   *)
(***************************************************************************)
\* The test case or run a POST of a link names, when the body is accepted.
LinkTarget(l, prefix) == PrefixedId(l.entityId.text, prefix)

\* The request names an entity and a key that are already linked.
Duplicates(l, prefix, pairs) ==
  /\ ~MissingEntityId(l.entityId)
  /\ ~MissingIssueKey(l.key)
  /\ ~LinkTarget(l, prefix).isNaN
  /\ \E p \in pairs :
       /\ p[1] = LinkTarget(l, prefix).n
       /\ toUpperCase(trim(p[2])) = toUpperCase(trim(l.key.text))

\* C21: no two links of a test case, and no two links of a run, have keys
\* that are equal once trimmed and upper-cased; a POST naming a pair that is
\* already linked is answered 409 and leaves both link tables as they were.
C21_LinksAreUnique ==
  /\ [](/\ \A a, b \in jira_links :
              (/\ a.test_case_id = b.test_case_id
               /\ toUpperCase(trim(a.jira_issue_key)) = toUpperCase(trim(b.jira_issue_key)))
                => a = b
        /\ \A a, b \in test_run_jira_links :
              (/\ a.test_run_id = b.test_run_id
               /\ toUpperCase(trim(a.jira_issue_key)) = toUpperCase(trim(b.jira_issue_key)))
                => a = b)
  /\ [][/\ (last'.op = POST_LINK
             /\ Duplicates(last', <<"T", "C", "-">>, CaseLinkPairs(jira_links)))
          => (last'.code = 409 /\ UNCHANGED links)
        /\ (last'.op = POST_RUN_LINK
             /\ Duplicates(last', <<"T", "R", "-">>, RunLinkPairs(test_run_jira_links)))
          => (last'.code = 409 /\ UNCHANGED links)
       ]_vars

\* Test cases 1 and 2 are both linked to A-1; a further POST of the key
\* spelled a-1 was answered 409 and the table still holds the two links.
C21_Witness ==
  /\ last.op = POST_LINK
  /\ last.code = 409
  /\ last.key.text = <<"a", "-", "1">>
  /\ \E l \in jira_links : l.test_case_id = 1 /\ l.jira_issue_key = <<"A", "-", "1">>
  /\ \E l \in jira_links : l.test_case_id = 2 /\ l.jira_issue_key = <<"A", "-", "1">>
  /\ Cardinality(jira_links) = 2

(***************************************************************************)
(* The edit form of a run.                                                 *)
(***************************************************************************)
\* The step of the form: a change, the sending of a save, the load.
FormChanges == runForm'.changes = runForm.changes + 1

FormSends == runForm'.saves = runForm.saves + 1

FormLoads == runForm'.opens = runForm.opens + 1

\* The save a sending step puts in flight.
Sent == CHOOSE g \in runForm'.flights : g.n = runForm'.saves

\* The steps of the form as a body carries them.
StepsOfForm(f) == SaveSteps(FALSE, f.steps)

\* What C22 says of every step of the form, but for the content of the PUT.
Debounced ==
  /\ FormChanges =>
       /\ runForm'.autoSaveTimer = Armed
       /\ ~FormSends
  /\ FormLoads => (~FormSends /\ ~runForm'.autoSaveTimer.armed)
  /\ FormSends =>
       /\ runForm.mounted
       /\ runForm'.flights = runForm.flights \cup {Sent}
       /\ Sent \notin runForm.flights
       /\ ~runForm'.autoSaveTimer.armed
       /\ Sent.by = "timer" =>
            (runForm.autoSaveTimer.armed /\ runForm.autoSaveTimer.left = 0)
       /\ Sent.body.status = StatusString(runForm.status)
  /\ (/\ runForm.autoSaveTimer.armed
      /\ runForm'.autoSaveTimer.armed
      /\ runForm'.autoSaveTimer.left < runForm.autoSaveTimer.left)
       => UNCHANGED <<runForm.status, runForm.steps, runForm.saves>>

\* C22 as stated: every change re-arms the 800 ms timer and sends nothing;
\* loading sends nothing; a PUT leaves only when the timer is due or on
\* Cmd/Ctrl+S, one at a time, with the timer cleared, and it carries the
\* status and the steps the form holds.
C22_AutoSaveCarriesStatusAndSteps ==
  [][/\ Debounced
     /\ FormSends => Sent.body.steps = StepsOfForm(runForm)]_vars

\* C22 amended: the PUT carries the steps unless the status saved last is
\* passed or failed; it then carries the status alone.
C22_AutoSaveIsDebounced ==
  [][/\ Debounced
     /\ FormSends =>
          Sent.body.steps = IF isLockedStatus(runForm.lastSavedStatusRef)
                              THEN NoSteps ELSE StepsOfForm(runForm)]_vars

\* Two changes less than 800 ms apart, then the timer: one PUT, sent by the
\* timer, with the status and the steps of the second change.
C22_Witness ==
  /\ runForm.mounted
  /\ runForm.changes = 2
  /\ runForm.saves = 1
  /\ \E g \in runForm.flights :
       /\ g.by = "timer"
       /\ g.phase = "request"
       /\ g.body.status = StatusString("na")
       /\ g.body.steps = StepsOfForm(runForm)
       /\ runForm.steps[1].checked

\* The form is at rest after a save that succeeded: no change waits for the
\* timer and no save is in flight.
AtRestSaved ==
  /\ runForm.mounted
  /\ runForm.saveState = "saved"
  /\ ~runForm.autoSaveTimer.armed
  /\ runForm.flights = {}

\* The fields of a step a tester fills in.
RunLocal(step) ==
  [id |-> step.id, actualResults |-> step.actualResults,
   actualResultAttachments |-> step.actualResultAttachments,
   checked |-> step.checked, stepStatus |-> step.stepStatus]

\* C23: whenever the form is at rest after a successful save, the stored
\* status of the run is the status of the form and the stored actualResults,
\* actualResultAttachments, checked and stepStatus of each step are those of
\* the form.
C23_FormMatchesServer ==
  AtRestSaved =>
    LET id == parseInt(runForm.testRunId).n
        stored == LoadedSteps(id)
    IN  /\ StatusOf(test_runs, id) = {runForm.status}
        /\ Len(stored) = Len(runForm.steps)
        /\ \A k \in 1..Len(stored) : RunLocal(stored[k]) = RunLocal(runForm.steps[k])

\* C26: with one tester and no other writer, no save of the form is
\* answered 409 (a save carries steps only if the run is not locked when the
\* server handles it), and whenever no save is in flight the status the form
\* holds as saved last is the stored status.
C26_FormNeverSendsStepsToLockedRun ==
  /\ \A g \in runForm.flights : g.orphan \/ g.code # 409
  /\ (runForm.mounted /\ runForm.flights = {}) =>
       StatusOf(test_runs, parseInt(runForm.testRunId).n) = {runForm.lastSavedStatusRef}

\* The stored run is locked while the form holds an unlocked status as the
\* one saved last, the run has steps, every request in flight carries them
\* and no response in flight is a success.
DeadEnd ==
  /\ runForm.mounted
  /\ Len(runForm.steps) > 0
  /\ ~isLockedStatus(runForm.lastSavedStatusRef)
  /\ \A s \in StatusOf(test_runs, parseInt(runForm.testRunId).n) : isLockedStatus(s)
  /\ \A g \in runForm.flights :
       IF g.phase = "request"
         THEN g.body.steps.kind = "array" /\ Len(g.body.steps.arr) > 0
         ELSE g.code # 200

\* While the form stays open a dead end is never left, and every save the
\* server handles there is answered 409.
DeadEndIsForever ==
  [][(DeadEnd /\ runForm'.mounted) =>
       /\ DeadEnd'
       /\ \A g \in runForm'.flights \ runForm.flights :
            g.phase = "response" => g.code = 409]_vars

\* C27: the form never reaches a state from which every later save is
\* rejected, whatever save failed before.
C27_NoDeadEnd == ~DeadEnd

(***************************************************************************)
(* Deleting runs.                                                          *)
(***************************************************************************)
\* C24: no request removes a run whose stored status is passed or failed;
\* the run and its steps are still stored after every request.
C24_LockedRunIsNotDeleted ==
  [][\A r \in test_runs :
       r.status \in LOCKED_STATUSES =>
         /\ \E q \in test_runs' : q.id = r.id
         /\ StepsOf(test_run_steps', r.id) # {}]_vars

(***************************************************************************)
(* The status of a step.                                                   *)
(***************************************************************************)
\* C28: the step_status of every stored run step is one of not_run, passed,
\* failed, na, passed_with_improvements.
C28_StepStatusIsOfTheEnum ==
  \A r \in test_run_steps : r.step_status \in StepStatus

(***************************************************************************)
(* Requests that interleave on one test case.                              *)
(***************************************************************************)
\* What a step list holds, the row ids left out: position, description and
\* expected results of each row in the order of the SELECT.
Listed(rows) ==
  [k \in 1..Len(rows) |->
     [position |-> rows[k].position, step_description |-> rows[k].step_description,
      expected_results |-> rows[k].expected_results]]

\* The list stored for test case 1 by a save of stepList that ran alone.
Saved(stepList) == Listed(OrderByPosition(InsertCaseSteps({}, 1, stepList, 0, 0)))

\* The request of client c has replaced the steps of test case 1.
Replaced(c) ==
  /\ inflight[c].pc = "done"
  /\ inflight[c].op = PUT_CASE
  /\ inflight[c].code = 200
  /\ inflight[c].id.n = 1
  /\ inflight[c].steps.kind = "array"

\* C25: once two saves of test case 1 with step lists have both finished,
\* the stored steps are the list of one of them: no rows of both, and no
\* position stored twice.
C25_LastWriteWins ==
  (\A c \in Clients : Replaced(c)) =>
     /\ \E c \in Clients :
          Listed(SelectCaseSteps(test_case_steps, 1)) = Saved(inflight[c].steps.arr)
     /\ \A a, b \in test_case_steps :
          a.test_case_id = 1 /\ b.test_case_id = 1 /\ a.position = b.position => a = b

\* C30: a run created from test case 1 holds the list stored before a save
\* of the case that ran meanwhile, or the list that save stores: never an
\* empty list and never a part of one.
C30_RunSnapshotsWholeList ==
  \A c \in Clients :
    (inflight[c].pc = "done" /\ inflight[c].op = POST /\ inflight[c].code = 201) =>
       \/ Listed(SelectRunSteps(test_run_steps, inflight[c].run))
            = Listed(SelectCaseSteps(CasesWithAttachments, 1))
       \/ \E d \in Clients \ {c} :
            /\ inflight[d].pc # "idle"
            /\ inflight[d].op = PUT_CASE
            /\ inflight[d].steps.kind = "array"
            /\ Listed(SelectRunSteps(test_run_steps, inflight[c].run))
                 = Saved(inflight[d].steps.arr)

(***************************************************************************)
(* Attachments and their files.                                            *)
(***************************************************************************)
\* The ids of the attachments a stored attachments column names; an entry
\* without an id names none.
Referenced(column) ==
  {parseAttachments(column)[j].id : j \in 1..Len(parseAttachments(column))} \ {0}

\* C29: every attachment id that a stored step of a test case or of a run
\* names has its file in the uploads directory.
C29_ReferencedFilesExist ==
  /\ \A r \in test_case_steps :
       \A id \in Referenced(r.attachments) : filePath(uploads, id) # {}
  /\ \A r \in test_run_steps :
       \A id \in Referenced(r.attachments) : filePath(uploads, id) # {}

====
